---- MODULE Spec2Model ----
(***************************************************************************)
(* Cloud-Network-Simulator: the simulation core.                           *)
(*   LinkQueue, CongestionController, QueueAwarePacketManager              *)
(*                                              (src/congestion.py)        *)
(*   Packet, PacketAnimator, AnimatorWorker     (src/packet.py)            *)
(*   DijkstraRouter, PathManager                (src/routing/router.py)    *)
(*   LatencyThroughputEngine                    (src/latency.py)           *)
(*   NetworkManager, MainWindow wiring          (src/main.py)              *)
(*                                                                         *)
(* Times are whole milliseconds.  A congestion window is the exact         *)
(* rational n / (10 * 2^k), kept as the record [n, k].                     *)
(***************************************************************************)
EXTENDS Integers, Sequences, FiniteSets, TLC

\* ------------------------------------------------------------------ bounds
MaxCap == 2          \* largest queue capacity / link queue_size tried
MaxEnq == 4          \* enqueue attempts on a bare LinkQueue
MaxTime == 2         \* the clock stops advancing here
MaxPackets == 2      \* Packet objects ever allocated
MaxAdmit == 2        \* admissions asked of one link's queue
MaxLog == 2          \* entries in delivered_packets / dropped_packets
MaxNodes == 2        \* nodes placed on the canvas since the last clear
MaxLinks == 1        \* links drawn since the last clear
RouteNodes == 3      \* nodes of the networks routes are computed on
RoutePaths == 1      \* paths computed on them in one run
MaxPending == 2      \* calls posted to the Tk main loop and not yet run

\* --------------------------------------------------------------- constants
TAIL_DROP == "tail_drop"
HEAD_DROP == "head_drop"
RANDOM_DROP == "random_drop"
DropPolicy == {TAIL_DROP, HEAD_DROP, RANDOM_DROP}

QUEUED == "queued"
IN_TRANSIT == "in_transit"
DELIVERED == "delivered"
DROPPED == "dropped"
PacketState == {QUEUED, IN_TRANSIT, DELIVERED, DROPPED}

None == "None"       \* Python's None where the other values are strings
NoLink == 0          \* None where a link id is expected
NoPacket == 0        \* None where a Packet is expected
Nothing == <<>>      \* None where a tuple, list or record is expected;
                     \* a record r is then carried as <<r>>

VARIABLES
    \* AnimatorWorker (src/packet.py)
    sim_time,            \* sim_time
    wall,                \* time.time() * 1000 - start_time
    paused,              \* paused
    speed_multiplier,    \* speed_multiplier
    update_callback,     \* update_callback (None, or MainWindow._on_animation_update)
    anim_active,         \* active_packets: packet id -> Packet
    animators,           \* animators: packet id -> PacketAnimator
    after_queue,         \* Tk's queue of callbacks posted with after(0, ...)
    \* NetworkManager (src/main.py)
    nodes,               \* nodes (their ids)
    links,               \* links: link id -> Link
    node_counter,
    link_counter,
    \* PathManager (src/routing/router.py)
    current_path,
    path_history,
    \* CongestionController (src/congestion.py)
    link_queues,         \* link id -> LinkQueue
    congestion_windows,  \* link id -> window
    drop_history,
    congestion_events,
    ctl_total_packets_dropped,   \* CongestionController.total_packets_dropped
    \* LatencyThroughputEngine (src/latency.py)
    link_metrics,
    packet_metrics,
    total_packets_sent,
    total_packets_delivered,
    total_packets_dropped,
    \* QueueAwarePacketManager (src/congestion.py)
    heap,                \* the Packet objects allocated so far, by reference
    all_packets,
    active_packets,      \* packet id -> Packet
    delivered_packets,
    dropped_packets,
    packet_counter,
    \* the caller
    ret                  \* the last call made and what it returned

animVars == <<sim_time, wall, paused, speed_multiplier, update_callback,
              anim_active, animators, after_queue>>
topoVars == <<nodes, links, node_counter, link_counter>>
pathVars == <<current_path, path_history>>
ctlVars  == <<link_queues, congestion_windows, drop_history, congestion_events,
              ctl_total_packets_dropped>>
engVars  == <<link_metrics, packet_metrics, total_packets_sent,
              total_packets_delivered, total_packets_dropped>>
mgrVars  == <<heap, all_packets, active_packets, delivered_packets,
              dropped_packets, packet_counter>>

\* everything the program owns (all but the caller's record of its last call)
progVars == <<animVars, topoVars, pathVars, ctlVars, engVars, mgrVars>>

vars == <<progVars, ret>>

\* ------------------------------------------------------------- dicts
EmptyDict == <<>>
Put(f, k, v) == [x \in (DOMAIN f) \cup {k} |-> IF x = k THEN v ELSE f[x]]
Del(f, k) == [x \in (DOMAIN f) \ {k} |-> f[x]]

\* ------------------------------------------------------------- sequences
RemoveAt(s, i) == SubSeq(s, 1, i - 1) \o SubSeq(s, i + 1, Len(s))

RECURSIVE SumSeq(_)
SumSeq(s) == IF s = <<>> THEN 0 ELSE Head(s) + SumSeq(Tail(s))

\* ------------------------------------------------------------- LinkQueue
\* LinkQueue(link_id, capacity, drop_policy): the dataclass defaults
NewLinkQueue(link_id, capacity, drop_policy) ==
    [link_id |-> link_id, capacity |-> capacity, drop_policy |-> drop_policy,
     queue |-> <<>>,
     packets_enqueued |-> 0, packets_dequeued |-> 0, packets_dropped |-> 0,
     total_queue_delay |-> 0]

QueueItem(packet, current_time) == [packet |-> packet, enqueue_time |-> current_time]

\* a plausible slip: the full test is off by one, so a full queue still appends
enqueue_offbyone(q, packet, current_time, idx) ==
    LET q1 == [q EXCEPT !.packets_enqueued = @ + 1]
        item == QueueItem(packet, current_time)
    IN  IF Len(q.queue) <= q.capacity
        THEN [q |-> [q1 EXCEPT !.queue = Append(@, item)], accepted |-> TRUE]
        ELSE [q |-> [q1 EXCEPT !.packets_dropped = @ + 1], accepted |-> FALSE]

\* a plausible slip: tail-drop forgets to count the drop
enqueue_nodropcount(q, packet, current_time, idx) ==
    LET q1 == [q EXCEPT !.packets_enqueued = @ + 1]
        item == QueueItem(packet, current_time)
    IN  IF Len(q.queue) < q.capacity
        THEN [q |-> [q1 EXCEPT !.queue = Append(@, item)], accepted |-> TRUE]
        ELSE IF q.drop_policy = TAIL_DROP
        THEN [q |-> q1, accepted |-> FALSE]
        ELSE [q |-> [q1 EXCEPT !.packets_dropped = @ + 1,
                               !.queue = Append(Tail(@), item)],
              accepted |-> TRUE]

\* enqueue whose head-drop and random-drop branches evict the newest item
enqueue_evictnewest(q, packet, current_time, idx) ==
    LET q1 == [q EXCEPT !.packets_enqueued = @ + 1]
        item == QueueItem(packet, current_time)
    IN  IF Len(q.queue) < q.capacity
        THEN [q |-> [q1 EXCEPT !.queue = Append(@, item)], accepted |-> TRUE]
        ELSE LET q2 == [q1 EXCEPT !.packets_dropped = @ + 1]
             IN  IF q.drop_policy = TAIL_DROP
                 THEN [q |-> q2, accepted |-> FALSE]
                 ELSE [q |-> IF q.queue # <<>>
                             THEN [q2 EXCEPT !.queue =
                                      Append(SubSeq(@, 1, Len(@) - 1), item)]
                             ELSE q2,
                       accepted |-> TRUE]

\* LinkQueue.enqueue; idx is the value random.randint(0, len(queue) - 1) + 1
enqueue(q, packet, current_time, idx) ==
    LET q1 == [q EXCEPT !.packets_enqueued = @ + 1]
        item == QueueItem(packet, current_time)
    IN  IF Len(q.queue) < q.capacity
        THEN [q |-> [q1 EXCEPT !.queue = Append(@, item)], accepted |-> TRUE]
        ELSE LET q2 == [q1 EXCEPT !.packets_dropped = @ + 1]
             IN  CASE q.drop_policy = TAIL_DROP ->
                        [q |-> q2, accepted |-> FALSE]
                   [] q.drop_policy = HEAD_DROP ->
                        [q |-> IF q.queue # <<>>
                               THEN [q2 EXCEPT !.queue = Append(Tail(@), item)]
                               ELSE q2,
                         accepted |-> TRUE]
                   [] q.drop_policy = RANDOM_DROP ->
                        [q |-> IF q.queue # <<>>
                               THEN [q2 EXCEPT !.queue = Append(RemoveAt(@, idx), item)]
                               ELSE q2,
                         accepted |-> TRUE]
                   [] OTHER -> [q |-> q2, accepted |-> FALSE]

\* dequeue popping the newest item
dequeue_newest(q, current_time) ==
    IF q.queue = <<>>
    THEN [q |-> q, result |-> Nothing]
    ELSE LET item == q.queue[Len(q.queue)]
             queuing_delay == current_time - item.enqueue_time
         IN  [q |-> [q EXCEPT !.queue = SubSeq(@, 1, Len(@) - 1),
                              !.total_queue_delay = @ + queuing_delay,
                              !.packets_dequeued = @ + 1],
              result |-> <<item.packet, queuing_delay>>]

\* a plausible slip: dequeue forgets to count the packet it hands out
dequeue_nocount(q, current_time) ==
    IF q.queue = <<>>
    THEN [q |-> q, result |-> Nothing]
    ELSE LET item == Head(q.queue)
             queuing_delay == current_time - item.enqueue_time
         IN  [q |-> [q EXCEPT !.queue = Tail(@),
                              !.total_queue_delay = @ + queuing_delay],
              result |-> <<item.packet, queuing_delay>>]

\* LinkQueue.dequeue: result is Nothing or <<packet, queuing_delay>>
dequeue(q, current_time) ==
    IF q.queue = <<>>
    THEN [q |-> q, result |-> Nothing]
    ELSE LET item == Head(q.queue)
             queuing_delay == current_time - item.enqueue_time
         IN  [q |-> [q EXCEPT !.queue = Tail(@),
                              !.total_queue_delay = @ + queuing_delay,
                              !.packets_dequeued = @ + 1],
              result |-> <<item.packet, queuing_delay>>]

get_size(q) == Len(q.queue)

\* LinkQueue.get_utilization as the fraction [num, den] (0/1 when capacity = 0)
get_utilization(q) ==
    IF q.capacity = 0 THEN [num |-> 0, den |-> 1]
    ELSE [num |-> Len(q.queue), den |-> q.capacity]

is_full(q) == Len(q.queue) >= q.capacity

\* the values random.randint(0, len(queue) - 1) can take, shifted to 1-based
RandomIdx(q) == IF q.queue = <<>> THEN {1} ELSE 1..Len(q.queue)

\* ============================================================ the whole state
\* The program's state as one record, so that a method that calls other
\* methods is the composition of their effects.
Cur ==
    [sim_time |-> sim_time, wall |-> wall, paused |-> paused,
     speed_multiplier |-> speed_multiplier, update_callback |-> update_callback,
     anim_active |-> anim_active, animators |-> animators,
     after_queue |-> after_queue,
     nodes |-> nodes, links |-> links, node_counter |-> node_counter,
     link_counter |-> link_counter,
     current_path |-> current_path, path_history |-> path_history,
     link_queues |-> link_queues, congestion_windows |-> congestion_windows,
     drop_history |-> drop_history, congestion_events |-> congestion_events,
     ctl_total_packets_dropped |-> ctl_total_packets_dropped,
     link_metrics |-> link_metrics, packet_metrics |-> packet_metrics,
     total_packets_sent |-> total_packets_sent,
     total_packets_delivered |-> total_packets_delivered,
     total_packets_dropped |-> total_packets_dropped,
     heap |-> heap, all_packets |-> all_packets,
     active_packets |-> active_packets,
     delivered_packets |-> delivered_packets,
     dropped_packets |-> dropped_packets, packet_counter |-> packet_counter]

Commit(w) ==
    /\ sim_time' = w.sim_time
    /\ wall' = w.wall
    /\ paused' = w.paused
    /\ speed_multiplier' = w.speed_multiplier
    /\ update_callback' = w.update_callback
    /\ anim_active' = w.anim_active
    /\ animators' = w.animators
    /\ after_queue' = w.after_queue
    /\ nodes' = w.nodes
    /\ links' = w.links
    /\ node_counter' = w.node_counter
    /\ link_counter' = w.link_counter
    /\ current_path' = w.current_path
    /\ path_history' = w.path_history
    /\ link_queues' = w.link_queues
    /\ congestion_windows' = w.congestion_windows
    /\ drop_history' = w.drop_history
    /\ congestion_events' = w.congestion_events
    /\ ctl_total_packets_dropped' = w.ctl_total_packets_dropped
    /\ link_metrics' = w.link_metrics
    /\ packet_metrics' = w.packet_metrics
    /\ total_packets_sent' = w.total_packets_sent
    /\ total_packets_delivered' = w.total_packets_delivered
    /\ total_packets_dropped' = w.total_packets_dropped
    /\ heap' = w.heap
    /\ all_packets' = w.all_packets
    /\ active_packets' = w.active_packets
    /\ delivered_packets' = w.delivered_packets
    /\ dropped_packets' = w.dropped_packets
    /\ packet_counter' = w.packet_counter

\* ============================================================ NetworkManager
\* Link(id, node_a, node_b, latency, bandwidth, queue_size)
NewLink(id, a, b, latency, bandwidth, queue_size) ==
    [id |-> id, node_a |-> a, node_b |-> b, latency |-> latency,
     bandwidth |-> bandwidth, queue_size |-> queue_size]

LinkJoins(lk, a, b) ==
    \/ (lk.node_a = a /\ lk.node_b = b)
    \/ (lk.node_a = b /\ lk.node_b = a)

\* NetworkManager.get_link_by_nodes: the first link, in insertion order (ids
\* ascend), that joins the two nodes; NoLink if there is none
get_link_by_nodes(w, a, b) ==
    LET found == {l \in DOMAIN w.links : LinkJoins(w.links[l], a, b)}
    IN  IF found = {} THEN NoLink
        ELSE CHOOSE l \in found : \A m \in found : l <= m

\* NetworkManager.add_node (the position checks are the canvas's)
add_node(w) ==
    [w EXCEPT !.node_counter = @ + 1,
              !.nodes = @ \cup {w.node_counter + 1}]

\* the checks of NetworkManager.add_link that raise ValueError
add_link_rejects(w, a, b) ==
    \/ a \notin w.nodes
    \/ b \notin w.nodes
    \/ a = b
    \/ \E l \in DOMAIN w.links : LinkJoins(w.links[l], a, b)

\* NetworkManager.add_link, past its checks
add_link(w, a, b, latency, bandwidth, queue_size) ==
    [w EXCEPT !.link_counter = @ + 1,
              !.links = Put(@, w.link_counter + 1,
                            NewLink(w.link_counter + 1, a, b, latency,
                                    bandwidth, queue_size))]

\* NetworkManager.remove_link
remove_link(w, link_id) ==
    IF link_id \notin DOMAIN w.links THEN w
    ELSE [w EXCEPT !.links = Del(@, link_id)]

\* NetworkManager.clear_all
network_clear_all(w) ==
    [w EXCEPT !.nodes = {}, !.links = EmptyDict,
              !.node_counter = 0, !.link_counter = 0]

\* ============================================================ DijkstraRouter
\* The router's graph is NetworkManager.graph, which add_node, add_link,
\* remove_link, clear_all and update_networkx_graph keep equal to nodes/links.
HasEdge(w, a, b) == get_link_by_nodes(w, a, b) # NoLink

Range(p) == {p[i] : i \in 1..Len(p)}

RECURSIVE Extend(_, _, _)
\* the simple paths of the graph that continue p and end at d
Extend(w, p, d) ==
    IF p[Len(p)] = d THEN {p}
    ELSE UNION { Extend(w, Append(p, n), d) :
                 n \in {m \in w.nodes \ Range(p) : HasEdge(w, p[Len(p)], m)} }

SimplePaths(w, s, d) == Extend(w, <<s>>, d)

RECURSIVE get_path_cost(_, _)
\* DijkstraRouter.get_path_cost: the sum of the edge weights (latencies)
get_path_cost(w, path) ==
    IF Len(path) < 2 THEN 0
    ELSE LET l == get_link_by_nodes(w, path[1], path[2])
         IN  (IF l # NoLink THEN w.links[l].latency ELSE 0)
             + get_path_cost(w, Tail(path))

\* the bandwidths of the edges along a path (edges that are missing give none)
PathBandwidths(w, path) ==
    { w.links[get_link_by_nodes(w, path[i], path[i + 1])].bandwidth :
      i \in {j \in 1..(Len(path) - 1) :
                get_link_by_nodes(w, path[j], path[j + 1]) # NoLink} }

SetMin(S) == CHOOSE x \in S : \A y \in S : x <= y

\* get_bottleneck_bandwidth taking the widest link of the path
get_bottleneck_bandwidth_widest(w, path) ==
    IF Len(path) < 2 \/ PathBandwidths(w, path) = {} THEN 0
    ELSE CHOOSE x \in PathBandwidths(w, path) :
            \A y \in PathBandwidths(w, path) : y <= x

\* DijkstraRouter.get_bottleneck_bandwidth
get_bottleneck_bandwidth(w, path) ==
    IF Len(path) < 2 \/ PathBandwidths(w, path) = {} THEN 0
    ELSE SetMin(PathBandwidths(w, path))

\* what compute_shortest_path does: raise ValueError, return None, return a path
Raised == [kind |-> "ValueError", path |-> <<>>]
NoPathFound == [kind |-> "None", path |-> <<>>]
Found(p) == [kind |-> "path", path |-> p]

\* compute_shortest_path with metric = "hops": the fewest links, whatever
\* their latencies
compute_shortest_path_hops(w, s, d) ==
    IF s \notin w.nodes \/ d \notin w.nodes \/ s = d THEN {Raised}
    ELSE IF SimplePaths(w, s, d) = {} THEN {NoPathFound}
    ELSE {Found(p) : p \in {p \in SimplePaths(w, s, d) :
            \A q \in SimplePaths(w, s, d) : Len(p) <= Len(q)}}

\* compute_shortest_path without the source = destination check: networkx
\* answers with the one-node path
compute_shortest_path_nosamecheck(w, s, d) ==
    IF s \notin w.nodes \/ d \notin w.nodes THEN {Raised}
    ELSE IF SimplePaths(w, s, d) = {} THEN {NoPathFound}
    ELSE {Found(p) : p \in {p \in SimplePaths(w, s, d) :
            \A q \in SimplePaths(w, s, d) :
                get_path_cost(w, p) <= get_path_cost(w, q)}}

\* DijkstraRouter.compute_shortest_path(metric = "latency"): the set of
\* outcomes it can have: ValueError raised, None (networkx found no path), or
\* a path of least total weight (networkx fixes which one among equals)
compute_shortest_path(w, s, d) ==
    IF s \notin w.nodes \/ d \notin w.nodes \/ s = d THEN {Raised}
    ELSE IF SimplePaths(w, s, d) = {} THEN {NoPathFound}
    ELSE {Found(p) : p \in {p \in SimplePaths(w, s, d) :
            \A q \in SimplePaths(w, s, d) :
                get_path_cost(w, p) <= get_path_cost(w, q)}}

\* DijkstraRouter.get_path_info -> PathInfo
NewPathInfo(w, s, d, path) ==
    [source_id |-> s, destination_id |-> d, path_nodes |-> path,
     hop_count |-> IF Len(path) < 2 THEN 0 ELSE Len(path) - 1,
     total_latency |-> get_path_cost(w, path),
     bottleneck_bandwidth |-> get_bottleneck_bandwidth(w, path),
     throughput |-> get_bottleneck_bandwidth(w, path)]

\* PathManager.set_path, given what compute_shortest_path produced
set_path(w, s, d, sp) ==
    IF sp.kind # "path"
    THEN [w |-> [w EXCEPT !.current_path = Nothing], result |-> FALSE]
    ELSE LET info == NewPathInfo(w, s, d, sp.path)
         IN  [w |-> [w EXCEPT !.current_path = <<info>>,
                              !.path_history = Append(@, info)],
              result |-> TRUE]

\* PathManager.get_current_path_nodes
get_current_path_nodes(w) ==
    IF w.current_path # Nothing THEN w.current_path[1].path_nodes ELSE Nothing

\* ============================================================ congestion window
\* the window value n / (10 * 2^k), in lowest terms of k
RECURSIVE Pow2(_)
Pow2(k) == IF k = 0 THEN 1 ELSE 2 * Pow2(k - 1)

RECURSIVE CwNorm(_)
CwNorm(x) == IF x.k > 0 /\ x.n % 2 = 0
             THEN CwNorm([n |-> x.n \div 2, k |-> x.k - 1]) ELSE x

CwFromInt(c) == [n |-> 10 * c, k |-> 0]
CwLeq(a, b) == a.n * Pow2(b.k) <= b.n * Pow2(a.k)
CwLess(a, b) == a.n * Pow2(b.k) < b.n * Pow2(a.k)
CwMax(a, b) == IF CwLeq(a, b) THEN b ELSE a
CwMin(a, b) == IF CwLeq(a, b) THEN a ELSE b
CwHalf(x) == CwNorm([n |-> x.n, k |-> x.k + 1])
CwPlusTenth(x) == [n |-> x.n + Pow2(x.k), k |-> x.k]

\* ============================================================ CongestionController
enable_tcp_congestion == TRUE

\* CongestionController.create_link_queue
create_link_queue(w, link_id, capacity, drop_policy) ==
    [w EXCEPT !.link_queues = Put(@, link_id,
                                  NewLinkQueue(link_id, capacity, drop_policy)),
              !.congestion_windows = Put(@, link_id, CwFromInt(capacity))]

\* _record_drop stamping the entry one frame early
record_drop_staletime(w, packet_id, link_id, time_ms) ==
    [w EXCEPT !.drop_history =
        Append(@, [packet_id |-> packet_id, link_id |-> link_id,
                   time_ms |-> IF time_ms > 0 THEN time_ms - 1 ELSE time_ms])]

\* CongestionController._record_drop
record_drop(w, packet_id, link_id, time_ms) ==
    [w EXCEPT !.drop_history =
        Append(@, [packet_id |-> packet_id, link_id |-> link_id,
                   time_ms |-> time_ms])]

\* CongestionController._record_congestion_event
record_congestion_event(w, link_id, event_type, cwnd) ==
    [w EXCEPT !.congestion_events =
        Append(@, [link_id |-> link_id, event_type |-> event_type,
                   cwnd |-> cwnd, time_ms |-> w.sim_time])]

\* CongestionController._handle_packet_drop
handle_packet_drop(w, link_id) ==
    IF link_id \in DOMAIN w.congestion_windows
    THEN LET cwnd == CwMax(CwFromInt(1), CwHalf(w.congestion_windows[link_id]))
         IN  record_congestion_event(
                [w EXCEPT !.congestion_windows[link_id] = cwnd],
                link_id, "drop", cwnd)
    ELSE w

\* CongestionController._handle_packet_success
handle_packet_success(w, link_id) ==
    IF link_id \in DOMAIN w.congestion_windows
    THEN LET max_cwnd == w.links[link_id].queue_size
         IN  [w EXCEPT !.congestion_windows[link_id] =
                 CwMin(CwFromInt(max_cwnd), CwPlusTenth(@))]
    ELSE w

\* process_packet_on_link with admission gated by the congestion window: a
\* packet is refused while the queue holds at least cwnd packets
process_packet_on_link_gated(w, packet, link_id, current_time, idx) ==
    IF link_id \notin DOMAIN w.link_queues
    THEN [w |-> w, accepted |-> TRUE]
    ELSE LET gated == /\ link_id \in DOMAIN w.congestion_windows
                      /\ CwLeq(w.congestion_windows[link_id],
                               CwFromInt(get_size(w.link_queues[link_id])))
             r == IF gated
                  THEN [q |-> w.link_queues[link_id], accepted |-> FALSE]
                  ELSE enqueue(w.link_queues[link_id], packet, current_time, idx)
             w1 == [w EXCEPT !.link_queues[link_id] = r.q]
         IN  IF ~r.accepted
             THEN LET w2 == [w1 EXCEPT !.ctl_total_packets_dropped = @ + 1]
                      w3 == record_drop(w2, w.heap[packet].id, link_id, current_time)
                  IN  [w |-> IF enable_tcp_congestion
                             THEN handle_packet_drop(w3, link_id) ELSE w3,
                       accepted |-> FALSE]
             ELSE [w |-> IF enable_tcp_congestion
                         THEN handle_packet_success(w1, link_id) ELSE w1,
                   accepted |-> TRUE]

\* CongestionController.process_packet_on_link; packet is the Packet object,
\* idx the random index enqueue may draw.  (Link.current_queue and the link
\* colour are the canvas's.)
process_packet_on_link(w, packet, link_id, current_time, idx) ==
    IF link_id \notin DOMAIN w.link_queues
    THEN [w |-> w, accepted |-> TRUE]
    ELSE LET r == enqueue(w.link_queues[link_id], packet, current_time, idx)
             w1 == [w EXCEPT !.link_queues[link_id] = r.q]
         IN  IF ~r.accepted
             THEN LET w2 == [w1 EXCEPT !.ctl_total_packets_dropped = @ + 1]
                      w3 == record_drop(w2, w.heap[packet].id, link_id, current_time)
                  IN  [w |-> IF enable_tcp_congestion
                             THEN handle_packet_drop(w3, link_id) ELSE w3,
                       accepted |-> FALSE]
             ELSE [w |-> IF enable_tcp_congestion
                         THEN handle_packet_success(w1, link_id) ELSE w1,
                   accepted |-> TRUE]

\* CongestionController.dequeue_packet
dequeue_packet(w, link_id, current_time) ==
    IF link_id \notin DOMAIN w.link_queues
    THEN [w |-> w, result |-> Nothing]
    ELSE LET r == dequeue(w.link_queues[link_id], current_time)
         IN  [w |-> [w EXCEPT !.link_queues[link_id] = r.q], result |-> r.result]


\* ============================================================ LatencyThroughputEngine
\* LatencyThroughputEngine.create_link_metrics -> LinkMetrics
create_link_metrics(w, link_id, source_id, dest_id, latency, bandwidth) ==
    [w EXCEPT !.link_metrics = Put(@, link_id,
        [link_id |-> link_id, source_node_id |-> source_id,
         dest_node_id |-> dest_id, latency |-> latency, bandwidth |-> bandwidth,
         packets_sent |-> 0, packets_received |-> 0,
         total_bytes_transferred |-> 0])]

RECURSIVE PathLinks(_, _)
\* the links calculate_metrics finds along path_nodes, in order
PathLinks(w, path) ==
    IF Len(path) < 2 THEN <<>>
    ELSE LET l == get_link_by_nodes(w, path[1], path[2])
         IN  (IF l # NoLink THEN <<l>> ELSE <<>>) \o PathLinks(w, Tail(path))

NoThroughput == [num |-> 0, den |-> 1]

\* PacketMetrics.calculate_metrics
calculate_metrics(m, w) ==
    LET found == PathLinks(w, m.path_nodes)
        lats == [i \in 1..Len(found) |-> w.links[found[i]].latency]
        bws == {w.links[found[i]].bandwidth : i \in 1..Len(found)}
        actual == IF m.delivery_time > 0 /\ m.sent_time > 0
                  THEN m.delivery_time - m.sent_time ELSE m.actual_latency
    IN  [m EXCEPT !.hop_count = Len(m.path_nodes) - 1,
                  !.path_latencies = @ \o lats,
                  !.link_ids = @ \o found,
                  !.total_latency = SumSeq(lats),
                  !.bottleneck_bandwidth = IF bws # {} THEN SetMin(bws) ELSE @,
                  !.actual_latency = actual,
                  !.throughput = IF actual > 0
                                 THEN [num |-> m.packet_size * 8, den |-> actual * 1000]
                                 ELSE @]

\* LatencyThroughputEngine.create_packet_metrics
create_packet_metrics(w, packet_id, source_id, dest_id, path, size, creation_time) ==
    LET m0 == [packet_id |-> packet_id, source_node_id |-> source_id,
               destination_node_id |-> dest_id, path_nodes |-> path,
               packet_size |-> size, state |-> "queued",
               creation_time |-> creation_time, sent_time |-> creation_time,
               delivery_time |-> 0, path_latencies |-> <<>>, hop_count |-> 0,
               total_latency |-> 0, actual_latency |-> 0,
               bottleneck_bandwidth |-> 0, throughput |-> NoThroughput,
               link_ids |-> <<>>]
    IN  [w EXCEPT !.packet_metrics = Put(@, packet_id, calculate_metrics(m0, w)),
                  !.total_packets_sent = @ + 1]

\* LatencyThroughputEngine.record_packet_sent
record_packet_sent(w, packet_id, sent_time) ==
    IF packet_id \in DOMAIN w.packet_metrics
    THEN [w EXCEPT !.packet_metrics[packet_id].sent_time = sent_time,
                   !.packet_metrics[packet_id].state = "in_transit"]
    ELSE w

RECURSIVE update_link_metrics_for_packet(_, _, _)
\* LatencyThroughputEngine._update_link_metrics_for_packet, one link_ids entry
\* after the other
update_link_metrics_for_packet(w, link_ids, size) ==
    IF link_ids = <<>> THEN w
    ELSE LET l == Head(link_ids)
             w1 == IF l \in DOMAIN w.link_metrics
                   THEN [w EXCEPT !.link_metrics[l].packets_sent = @ + 1,
                                  !.link_metrics[l].packets_received = @ + 1,
                                  !.link_metrics[l].total_bytes_transferred = @ + size]
                   ELSE w
         IN  update_link_metrics_for_packet(w1, Tail(link_ids), size)

\* LatencyThroughputEngine.record_packet_delivery
record_packet_delivery(w, packet_id, delivery_time) ==
    IF packet_id \in DOMAIN w.packet_metrics
    THEN LET m1 == [w.packet_metrics[packet_id] EXCEPT
                        !.delivery_time = delivery_time, !.state = "delivered"]
             m2 == calculate_metrics(m1, w)
             w1 == [w EXCEPT !.packet_metrics[packet_id] = m2,
                             !.total_packets_delivered = @ + 1]
         IN  update_link_metrics_for_packet(w1, m2.link_ids, m2.packet_size)
    ELSE w

\* LatencyThroughputEngine.record_packet_drop
record_packet_drop(w, packet_id) ==
    IF packet_id \in DOMAIN w.packet_metrics
    THEN [w EXCEPT !.packet_metrics[packet_id].state = "dropped",
                   !.total_packets_dropped = @ + 1]
    ELSE w

\* ============================================================ Packet
\* Packet(...) as create_packet builds it
NewPacket(id, source_id, dest_id, current_time, size, path) ==
    [id |-> id, source_node_id |-> source_id, destination_node_id |-> dest_id,
     creation_time |-> current_time, sent_time |-> current_time,
     delivery_time |-> 0, size |-> size, state |-> QUEUED, path |-> path,
     path_index |-> 0, current_node_id |-> source_id, current_link_index |-> 0,
     link_start_time |-> 0, link_latency |-> 0]

\* Packet.move_to_next_link; path_index counts from 0, path[i + 1] is Python's
\* path[i]
move_to_next_link(p, current_time) ==
    IF p.path_index + 1 >= Len(p.path)
    THEN [p |-> [p EXCEPT !.state = DELIVERED, !.delivery_time = current_time],
          reached |-> TRUE]
    ELSE LET p1 == [p EXCEPT !.path_index = @ + 1,
                             !.current_node_id = p.path[p.path_index + 2],
                             !.current_link_index = p.path_index,
                             !.link_start_time = current_time,
                             !.state = IN_TRANSIT]
         IN  IF p1.path_index >= Len(p.path) - 1
             THEN [p |-> [p1 EXCEPT !.state = DELIVERED,
                                    !.delivery_time = current_time],
                   reached |-> TRUE]
             ELSE [p |-> p1, reached |-> FALSE]

\* Packet.mark_delivered
mark_delivered(p, delivery_time) ==
    [p EXCEPT !.state = DELIVERED, !.delivery_time = delivery_time]

\* Packet.mark_dropped
mark_dropped(p) == [p EXCEPT !.state = DROPPED]

\* Packet.get_total_latency
get_total_latency(p) ==
    IF p.delivery_time > 0 THEN p.delivery_time - p.sent_time ELSE 0

\* ============================================================ AnimatorWorker
\* PacketAnimator.update: (current_time - start_time) / speed_multiplier >=
\* link_latency, with the division cleared (speed_multiplier > 0)
animator_update(a, current_time) ==
    (current_time - a.start_time) >= a.link_latency * a.speed_multiplier

\* AnimatorWorker.add_packet
add_packet(w, packet, link_latency) ==
    LET id == w.heap[packet].id
    IN  [w EXCEPT !.anim_active = Put(@, id, packet),
                  !.animators = Put(@, id,
                      [packet |-> packet, link_latency |-> link_latency,
                       start_time |-> w.sim_time,
                       speed_multiplier |-> w.speed_multiplier])]

\* AnimatorWorker.remove_packet
remove_packet(w, packet_id) ==
    [w EXCEPT !.anim_active = Del(@, packet_id),
              !.animators = Del(@, packet_id)]

\* AnimatorWorker.set_speed: max(0.1, multiplier), for whole multipliers
set_speed(w, multiplier) ==
    [w EXCEPT !.speed_multiplier = IF multiplier < 1 THEN @ ELSE multiplier]

\* AnimatorWorker.pause
pause(w) == [w EXCEPT !.paused = TRUE]

\* AnimatorWorker.resume
resume(w) == [w EXCEPT !.paused = FALSE]

\* AnimatorWorker._update_all_packets
update_all_packets(w) ==
    LET finished_packets ==
            {id \in DOMAIN w.animators : animator_update(w.animators[id], w.sim_time)}
    IN  [w EXCEPT !.animators = [id \in (DOMAIN @) \ finished_packets |-> @[id]]]

\* ids of a dict in insertion order; packet ids ascend with insertion here
RECURSIVE SetToSeq(_)
SetToSeq(S) == IF S = {} THEN <<>>
               ELSE LET x == SetMin(S) IN <<x>> \o SetToSeq(S \ {x})

\* MainWindow._on_animation_update: what the frame's callback posts to Tk
on_animation_update(w, snap_animators, t) ==
    LET packets_to_advance ==
            SetToSeq({id \in DOMAIN snap_animators :
                        animator_update(snap_animators[id], t)})
        q1 == IF packets_to_advance # <<>>
              THEN Append(w.after_queue,
                          [call |-> "_advance_packets", ids |-> packets_to_advance])
              ELSE w.after_queue
    IN  [w EXCEPT !.after_queue =
            Append(q1, [call |-> "_redraw_canvas_animation", ids |-> <<>>])]

\* one pass of the loop in AnimatorWorker.run, elapsed wall time now being
\* wall + dt
run_frame(w, dt) ==
    LET w0 == [w EXCEPT !.wall = @ + dt]
    IN  IF w0.paused THEN w0
        ELSE LET w1 == [w0 EXCEPT !.sim_time = w0.wall * w0.speed_multiplier]
                 w2 == update_all_packets(w1)
             IN  IF w2.update_callback # None
                 THEN on_animation_update(w2, w2.animators, w2.sim_time)
                 ELSE w2

\* ============================================================ QueueAwarePacketManager
\* a plausible slip: the dropped packet stays in active_packets
drop_packet_keepactive(w, packet) ==
    LET id == w.heap[packet].id
        w1 == [w EXCEPT !.heap[packet] = mark_dropped([@ EXCEPT !.state = DROPPED])]
        w2 == record_packet_drop(w1, id)
        w3 == [w2 EXCEPT !.dropped_packets = Append(@, packet)]
    IN  remove_packet(w3, id)

\* QueueAwarePacketManager.drop_packet
drop_packet(w, packet) ==
    LET id == w.heap[packet].id
        w1 == [w EXCEPT !.heap[packet] = mark_dropped([@ EXCEPT !.state = DROPPED])]
        w2 == record_packet_drop(w1, id)
        w3 == [w2 EXCEPT !.dropped_packets = Append(@, packet),
                         !.active_packets = Del(@, id)]
    IN  remove_packet(w3, id)

\* the checks of create_packet that return None before anything is touched
create_packet_invalid(w, source_id, dest_id) ==
    \/ source_id \notin w.nodes
    \/ dest_id \notin w.nodes
    \/ source_id = dest_id

\* a plausible slip: the id is drawn before the request is validated
create_packet_countfirst(w, source_id, dest_id, size, sp) ==
    LET w1 == [w EXCEPT !.packet_counter = @ + 1]
        packet_id == w1.packet_counter
        current_time == w1.sim_time
    IN  IF create_packet_invalid(w, source_id, dest_id)
        THEN [w |-> w1, result |-> NoPacket]
        ELSE LET r == set_path(w1, source_id, dest_id, sp)
             IN  IF ~r.result
                 THEN [w |-> r.w, result |-> NoPacket]
                 ELSE LET path_nodes == get_current_path_nodes(r.w)
                          packet == Len(w.heap) + 1
                          w2 == [r.w EXCEPT
                                   !.heap = Append(@, NewPacket(packet_id, source_id,
                                                dest_id, current_time, size, path_nodes)),
                                   !.all_packets = Append(@, packet),
                                   !.active_packets = Put(@, packet_id, packet)]
                      IN  [w |-> create_packet_metrics(w2, packet_id, source_id,
                                     dest_id, path_nodes, size, current_time),
                           result |-> packet]

\* a plausible slip: the metrics record is opened before the route is known
create_packet_metricsfirst(w, source_id, dest_id, size, sp) ==
    IF create_packet_invalid(w, source_id, dest_id)
    THEN [w |-> w, result |-> NoPacket]
    ELSE LET w1 == [w EXCEPT !.packet_counter = @ + 1]
             packet_id == w1.packet_counter
             current_time == w1.sim_time
             wm == create_packet_metrics(w1, packet_id, source_id, dest_id,
                                         <<source_id>>, size, current_time)
             r == set_path(wm, source_id, dest_id, sp)
         IN  IF ~r.result
             THEN [w |-> r.w, result |-> NoPacket]
             ELSE LET path_nodes == get_current_path_nodes(r.w)
                      packet == Len(w.heap) + 1
                      w2 == [r.w EXCEPT
                               !.heap = Append(@, NewPacket(packet_id, source_id,
                                            dest_id, current_time, size, path_nodes)),
                               !.all_packets = Append(@, packet),
                               !.active_packets = Put(@, packet_id, packet)]
                  IN  [w |-> create_packet_metrics(w2, packet_id, source_id,
                                 dest_id, path_nodes, size, current_time),
                       result |-> packet]

\* QueueAwarePacketManager.create_packet; sp is what compute_shortest_path
\* does for the pair.  result is NoPacket or the new Packet
create_packet(w, source_id, dest_id, size, sp) ==
    IF create_packet_invalid(w, source_id, dest_id)
    THEN [w |-> w, result |-> NoPacket]
    ELSE LET w1 == [w EXCEPT !.packet_counter = @ + 1]
             packet_id == w1.packet_counter
             current_time == w1.sim_time
             r == set_path(w1, source_id, dest_id, sp)
         IN  IF ~r.result
             THEN [w |-> r.w, result |-> NoPacket]
             ELSE LET path_nodes == get_current_path_nodes(r.w)
                      packet == Len(w.heap) + 1
                      w2 == [r.w EXCEPT
                               !.heap = Append(@, NewPacket(packet_id, source_id,
                                            dest_id, current_time, size, path_nodes)),
                               !.all_packets = Append(@, packet),
                               !.active_packets = Put(@, packet_id, packet)]
                  IN  [w |-> create_packet_metrics(w2, packet_id, source_id,
                                 dest_id, path_nodes, size, current_time),
                       result |-> packet]

\* start_packet_animation recording the sent time before the admission
start_packet_animation_sentfirst(w, packet, idx) ==
    LET p == w.heap[packet]
    IN  IF Len(p.path) < 2
        THEN [w |-> drop_packet(w, packet), result |-> FALSE]
        ELSE LET link == get_link_by_nodes(w, p.path[1], p.path[2])
             IN  IF link = NoLink
                 THEN [w |-> drop_packet(w, packet), result |-> FALSE]
                 ELSE LET w0 == record_packet_sent(w, p.id, w.sim_time)
                          r == process_packet_on_link(w0, packet, link, w.sim_time, idx)
                      IN  IF ~r.accepted
                          THEN [w |-> drop_packet(r.w, packet), result |-> FALSE]
                          ELSE LET w1 == [r.w EXCEPT
                                            !.heap[packet].state = IN_TRANSIT,
                                            !.heap[packet].current_link_index = 0,
                                            !.heap[packet].link_latency =
                                                 w.links[link].latency]
                               IN  [w |-> add_packet(w1, packet, w.links[link].latency),
                                    result |-> TRUE]

\* QueueAwarePacketManager.start_packet_animation
start_packet_animation(w, packet, idx) ==
    LET p == w.heap[packet]
    IN  IF Len(p.path) < 2
        THEN [w |-> drop_packet(w, packet), result |-> FALSE]
        ELSE LET link == get_link_by_nodes(w, p.path[1], p.path[2])
             IN  IF link = NoLink
                 THEN [w |-> drop_packet(w, packet), result |-> FALSE]
                 ELSE LET r == process_packet_on_link(w, packet, link, w.sim_time, idx)
                      IN  IF ~r.accepted
                          THEN [w |-> drop_packet(r.w, packet), result |-> FALSE]
                          ELSE LET w1 == [r.w EXCEPT
                                            !.heap[packet].state = IN_TRANSIT,
                                            !.heap[packet].current_link_index = 0,
                                            !.heap[packet].link_latency =
                                                 w.links[link].latency]
                                   w2 == record_packet_sent(w1, p.id, w1.sim_time)
                               IN  [w |-> add_packet(w2, packet, w.links[link].latency),
                                    result |-> TRUE]

\* QueueAwarePacketManager.advance_packet
advance_packet(w, packet, idx) ==
    LET current_time == w.sim_time
        mv == move_to_next_link(w.heap[packet], current_time)
        id == w.heap[packet].id
    IN  IF mv.reached
        THEN LET w1 == [w EXCEPT !.heap[packet] = mark_delivered(mv.p, current_time)]
                 w2 == record_packet_delivery(w1, id, current_time)
             IN  [w |-> [w2 EXCEPT !.delivered_packets = Append(@, packet),
                                   !.active_packets = Del(@, id)],
                  result |-> TRUE]
        ELSE LET w1 == [w EXCEPT !.heap[packet] = mv.p]
                 p == mv.p
             IN  IF p.path_index + 1 < Len(p.path)
                 THEN LET link == get_link_by_nodes(w1, p.path[p.path_index + 1],
                                                    p.path[p.path_index + 2])
                      IN  IF link # NoLink
                          THEN LET r == process_packet_on_link(w1, packet, link,
                                                               current_time, idx)
                               IN  IF ~r.accepted
                                   THEN [w |-> drop_packet(r.w, packet),
                                         result |-> FALSE]
                                   ELSE LET w2 == [r.w EXCEPT
                                                !.heap[packet].link_latency =
                                                    w.links[link].latency]
                                        IN  [w |-> add_packet(w2, packet,
                                                       w.links[link].latency),
                                             result |-> FALSE]
                          ELSE [w |-> w1, result |-> FALSE]
                 ELSE [w |-> w1, result |-> FALSE]

\* LinkQueue.clear
queue_clear(q) == [q EXCEPT !.queue = <<>>]

\* CongestionController.clear_all
controller_clear_all(w) ==
    [w EXCEPT !.link_queues = [l \in DOMAIN @ |-> queue_clear(@[l])],
              !.drop_history = <<>>,
              !.congestion_events = <<>>,
              !.ctl_total_packets_dropped = 0]

\* LatencyThroughputEngine.clear_all
engine_clear_all(w) ==
    [w EXCEPT !.link_metrics = EmptyDict,
              !.packet_metrics = EmptyDict,
              !.total_packets_sent = 0,
              !.total_packets_delivered = 0,
              !.total_packets_dropped = 0]

\* QueueAwarePacketManager.clear_all (queued_packets is never filled)
manager_clear_all(w) ==
    controller_clear_all(engine_clear_all(
        [w EXCEPT !.all_packets = <<>>,
                  !.active_packets = EmptyDict,
                  !.delivered_packets = <<>>,
                  !.dropped_packets = <<>>,
                  !.packet_counter = 0]))

\* MainWindow._advance_packets
RECURSIVE advance_packets(_, _, _)
advance_packets(w, packet_ids, idx) ==
    IF packet_ids = <<>> THEN w
    ELSE LET id == Head(packet_ids)
             w1 == IF id \in DOMAIN w.active_packets
                   THEN advance_packet(w, w.active_packets[id], idx).w
                   ELSE w
         IN  advance_packets(w1, Tail(packet_ids), idx)

\* MainWindow._on_update: the topology-change notification
RECURSIVE on_update_metrics(_, _)
on_update_metrics(w, ls) ==
    IF ls = <<>> THEN w
    ELSE LET l == Head(ls)
             w1 == IF l \notin DOMAIN w.link_metrics
                   THEN create_link_metrics(w, l, w.links[l].node_a,
                            w.links[l].node_b, w.links[l].latency,
                            w.links[l].bandwidth)
                   ELSE w
         IN  on_update_metrics(w1, Tail(ls))

RECURSIVE on_update_queues(_, _)
on_update_queues(w, ls) ==
    IF ls = <<>> THEN w
    ELSE LET l == Head(ls)
             w1 == IF l \notin DOMAIN w.link_queues
                   THEN create_link_queue(w, l, w.links[l].queue_size, TAIL_DROP)
                   ELSE w
         IN  on_update_queues(w1, Tail(ls))

on_update(w) ==
    on_update_queues(on_update_metrics(w, SetToSeq(DOMAIN w.links)),
                     SetToSeq(DOMAIN w.links))


\* ============================================================ construction
\* AnimatorWorker.__init__
InitAnimator(callback) ==
    /\ sim_time = 0
    /\ wall = 0
    /\ paused = FALSE
    /\ speed_multiplier = 1
    /\ update_callback = callback
    /\ anim_active = EmptyDict
    /\ animators = EmptyDict
    /\ after_queue = <<>>

\* NetworkManager.__init__
InitTopology ==
    /\ nodes = {}
    /\ links = EmptyDict
    /\ node_counter = 0
    /\ link_counter = 0

\* PathManager.__init__
InitPath ==
    /\ current_path = Nothing
    /\ path_history = <<>>

\* CongestionController.__init__
InitController ==
    /\ link_queues = EmptyDict
    /\ congestion_windows = EmptyDict
    /\ drop_history = <<>>
    /\ congestion_events = <<>>
    /\ ctl_total_packets_dropped = 0

\* LatencyThroughputEngine.__init__
InitEngine ==
    /\ link_metrics = EmptyDict
    /\ packet_metrics = EmptyDict
    /\ total_packets_sent = 0
    /\ total_packets_delivered = 0
    /\ total_packets_dropped = 0

\* QueueAwarePacketManager.__init__
InitManager ==
    /\ heap = <<>>
    /\ all_packets = <<>>
    /\ active_packets = EmptyDict
    /\ delivered_packets = <<>>
    /\ dropped_packets = <<>>
    /\ packet_counter = 0

\* ============================================================ SpecQueue
\* One LinkQueue driven by any sequence of enqueue / dequeue calls, the
\* current_time of each call being the animator's sim_time.
QLink == 1

QInit ==
    /\ InitAnimator(None)
    /\ InitTopology
    /\ InitPath
    /\ InitEngine
    /\ InitManager
    /\ \E c \in 1..MaxCap, pol \in DropPolicy :
          link_queues = [l \in {QLink} |-> NewLinkQueue(l, c, pol)]
    /\ congestion_windows = EmptyDict
    /\ drop_history = <<>>
    /\ congestion_events = <<>>
    /\ ctl_total_packets_dropped = 0
    /\ ret = [op |-> "init"]

\* the variables a bare LinkQueue does not touch
QFrame == <<wall, paused, speed_multiplier, update_callback, anim_active,
            animators, after_queue, topoVars, pathVars, congestion_windows,
            drop_history, congestion_events, ctl_total_packets_dropped,
            engVars, mgrVars>>

\* the speed multipliers a caller sets
Speeds == {1, 3}

QEnqueue(l, p, idx) ==
    /\ link_queues[l].packets_enqueued < MaxEnq
    /\ LET r == enqueue(link_queues[l], p, sim_time, idx)
       IN  /\ link_queues' = [link_queues EXCEPT ![l] = r.q]
           /\ ret' = [op |-> "enqueue", link |-> l, packet |-> p,
                      time |-> sim_time, accepted |-> r.accepted]
    /\ UNCHANGED <<sim_time, QFrame>>

QDequeue(l) ==
    /\ LET r == dequeue(link_queues[l], sim_time)
       IN  /\ link_queues' = [link_queues EXCEPT ![l] = r.q]
           /\ ret' = [op |-> "dequeue", link |-> l, time |-> sim_time,
                      result |-> r.result]
    /\ UNCHANGED <<sim_time, QFrame>>

\* the callers' clock is the animator's sim_time: one frame of
\* AnimatorWorker.run
QClock ==
    /\ wall < MaxTime
    /\ Commit(run_frame(Cur, 1))
    /\ ret' = [op |-> "clock"]

\* AnimatorWorker.set_speed
QSetSpeed(multiplier) ==
    /\ multiplier # speed_multiplier
    /\ Commit(set_speed(Cur, multiplier))
    /\ ret' = [op |-> "set_speed", multiplier |-> multiplier]

QNext ==
    \/ \E l \in DOMAIN link_queues, p \in 1..MaxPackets :
          \E idx \in RandomIdx(link_queues[l]) : QEnqueue(l, p, idx)
    \/ \E l \in DOMAIN link_queues : QDequeue(l)
    \/ QClock
    \/ \E m \in Speeds : QSetSpeed(m)

SpecQueue == QInit /\ [][QNext]_vars

\* ----------------------------------------------------------------- C1
\* C1: for every LinkQueue, every drop policy and every sequence of enqueue
\* and dequeue calls, 0 <= len(queue) <= capacity after each call, and
\* get_utilization() is within [0, 1].
C1_CapacityInvariant ==
    \A l \in DOMAIN link_queues :
        LET q == link_queues[l]
            u == get_utilization(q)
        IN  /\ 0 <= Len(q.queue)
            /\ Len(q.queue) <= q.capacity
            /\ 0 <= u.num
            /\ u.num <= u.den

\* a full queue has just taken an enqueue under head-drop or random-drop
C1_Witness ==
    /\ ret.op = "enqueue"
    /\ ret.accepted
    /\ link_queues[ret.link].drop_policy # TAIL_DROP
    /\ link_queues[ret.link].packets_dropped > 0
    /\ Len(link_queues[ret.link].queue) = link_queues[ret.link].capacity

\* ----------------------------------------------------------------- C4
\* C4: under tail-drop, an enqueue on a full queue returns not-accepted,
\* leaves the queue's contents and length unchanged, increments
\* packets_dropped and packets_enqueued by exactly 1, and leaves
\* packets_dequeued and total_queue_delay unchanged.
C4_TailDropStep ==
    \A l \in DOMAIN link_queues :
        (/\ ret'.op = "enqueue"
         /\ ret'.link = l
         /\ link_queues'[l] # link_queues[l]
         /\ link_queues[l].drop_policy = TAIL_DROP
         /\ is_full(link_queues[l]))
        => (/\ ret'.accepted = FALSE
            /\ link_queues'[l].queue = link_queues[l].queue
            /\ link_queues'[l].packets_dropped = link_queues[l].packets_dropped + 1
            /\ link_queues'[l].packets_enqueued = link_queues[l].packets_enqueued + 1
            /\ link_queues'[l].packets_dequeued = link_queues[l].packets_dequeued
            /\ link_queues'[l].total_queue_delay = link_queues[l].total_queue_delay)

\* C4 over every step: tail-drop on a full queue changes only the two counters
C4_TailDropConservation == [][C4_TailDropStep]_vars

\* a tail-drop queue is full and its last enqueue was turned away
C4_Witness ==
    /\ ret.op = "enqueue"
    /\ ~ret.accepted
    /\ link_queues[ret.link].drop_policy = TAIL_DROP
    /\ Len(link_queues[ret.link].queue) = link_queues[ret.link].capacity
    /\ link_queues[ret.link].packets_dropped = 1

\* ----------------------------------------------------------------- C16
\* C16: every enqueue call increments packets_enqueued, and packets_dropped
\* is incremented exactly by the calls that return not-accepted: an enqueue
\* that evicts under head-drop or random-drop and accepts does not count a
\* drop.
C16_CounterStep ==
    \A l \in DOMAIN link_queues :
        (ret'.op = "enqueue" /\ ret'.link = l) =>
            /\ link_queues'[l].packets_enqueued = link_queues[l].packets_enqueued + 1
            /\ link_queues'[l].packets_dropped =
                  link_queues[l].packets_dropped + (IF ret'.accepted THEN 0 ELSE 1)

\* C16 over every step: the counters count calls and rejections
C16_CountersCountCalls == [][C16_CounterStep]_vars

\* ----------------------------------------------------------------- C17
\* C17: a successful dequeue(now) returns the head item with a queuing_delay
\* equal to now minus the item's enqueue time, the delay is >= 0, and
\* total_queue_delay grows by exactly that delay (so it is the sum of the
\* delays of the items dequeued so far).
C17_DequeueStep ==
    \A l \in DOMAIN link_queues :
        (ret'.op = "dequeue" /\ ret'.link = l /\ ret'.result # Nothing) =>
            LET item == Head(link_queues[l].queue)
                queuing_delay == ret'.result[2]
            IN  /\ ret'.result[1] = item.packet
                /\ queuing_delay = ret'.time - item.enqueue_time
                /\ queuing_delay >= 0
                /\ link_queues'[l].total_queue_delay =
                      link_queues[l].total_queue_delay + queuing_delay

\* C17 over every step: dequeue reports the exact, non-negative delay
C17_DelayExactNonNegative == [][C17_DequeueStep]_vars

\* ----------------------------------------------------------------- C27
\* queue after the item at position i left and item came in at the end
Replaced(queue, i, item) ==
    [j \in 1..Len(queue) |->
        IF j < i THEN queue[j]
        ELSE IF j < Len(queue) THEN queue[j + 1] ELSE item]

\* C27: on a full queue a head-drop enqueue removes exactly the oldest item,
\* appends the incoming packet as the newest, returns accepted, keeps the
\* length at capacity and leaves packets_dequeued and total_queue_delay
\* alone; a random-drop enqueue removes exactly one queued item, keeps the
\* order of the others and appends the incoming packet.
C27_EvictionStep ==
    \A l \in DOMAIN link_queues :
        LET q == link_queues[l]
            q2 == link_queues'[l]
            item == [packet |-> ret'.packet, enqueue_time |-> ret'.time]
        IN  (/\ ret'.op = "enqueue"
             /\ ret'.link = l
             /\ Len(q.queue) = q.capacity
             /\ q.drop_policy \in {HEAD_DROP, RANDOM_DROP})
            => /\ ret'.accepted = TRUE
               /\ Len(q2.queue) = q.capacity
               /\ q2.packets_dequeued = q.packets_dequeued
               /\ q2.total_queue_delay = q.total_queue_delay
               /\ q.drop_policy = HEAD_DROP =>
                     q2.queue = Replaced(q.queue, 1, item)
               /\ q.drop_policy = RANDOM_DROP =>
                     \E i \in 1..Len(q.queue) : q2.queue = Replaced(q.queue, i, item)

C29_FifoStep ==
    \A l \in DOMAIN link_queues :
        LET q == link_queues[l]
            q2 == link_queues'[l]
        IN  /\ (ret'.op = "dequeue" /\ ret'.link = l /\ q.queue # <<>>) =>
                  /\ ret'.result # Nothing
                  /\ ret'.result[1] = q.queue[1].packet
                  /\ q2.queue = SubSeq(q.queue, 2, Len(q.queue))
                  /\ q2.packets_dequeued = q.packets_dequeued + 1
            /\ (ret'.op = "dequeue" /\ ret'.link = l /\ q.queue = <<>>) =>
                  /\ ret'.result = Nothing
                  /\ q2 = q
            /\ (/\ ret'.op = "enqueue"
                /\ ret'.link = l
                /\ q.drop_policy = TAIL_DROP) =>
                  q2.queue = IF ret'.accepted
                             THEN q.queue \o <<[packet |-> ret'.packet,
                                                enqueue_time |-> ret'.time]>>
                             ELSE q.queue

\* C29 over every step
C29_QueueIsFifo == [][C29_FifoStep]_vars

\* C29's case: a tail-drop queue that held two packets has handed out the
\* first and still holds the second
C29_Witness ==
    \E l \in DOMAIN link_queues :
        /\ ret.op = "dequeue"
        /\ ret.link = l
        /\ ret.result # Nothing
        /\ link_queues[l].drop_policy = TAIL_DROP
        /\ Len(link_queues[l].queue) = 1
        /\ link_queues[l].queue[1].packet # ret.result[1]

\* ============================================================ Spec
\* The packet lifecycle driven through the command surface, on a network
\* drawn beforehand: nodes 1-2-3 in a chain and node 4 on its own (node 5 does
\* not exist).  Any caller holding the packets may call create_packet,
\* start_packet_animation and advance_packet in any order, between frames of
\* the animator (which has no frame callback here).
QueueSizes == 1..MaxCap
Sizes == {1024}

\* the (source, destination) pairs callers ask for: routed over two hops
\* or one, not connected, the same node twice, an unknown node at either end
Requests == {<<1, 3>>, <<2, 3>>, <<1, 4>>, <<2, 2>>, <<5, 1>>, <<1, 5>>}

\* the objects as MainWindow.__init__ constructs them
Constructed(callback) ==
    [sim_time |-> 0, wall |-> 0, paused |-> FALSE, speed_multiplier |-> 1,
     update_callback |-> callback, anim_active |-> EmptyDict,
     animators |-> EmptyDict, after_queue |-> <<>>,
     nodes |-> {}, links |-> EmptyDict, node_counter |-> 0, link_counter |-> 0,
     current_path |-> Nothing, path_history |-> <<>>,
     link_queues |-> EmptyDict, congestion_windows |-> EmptyDict,
     drop_history |-> <<>>, congestion_events |-> <<>>,
     ctl_total_packets_dropped |-> 0,
     link_metrics |-> EmptyDict, packet_metrics |-> EmptyDict,
     total_packets_sent |-> 0, total_packets_delivered |-> 0,
     total_packets_dropped |-> 0,
     heap |-> <<>>, all_packets |-> <<>>, active_packets |-> EmptyDict,
     delivered_packets |-> <<>>, dropped_packets |-> <<>>, packet_counter |-> 0]

\* MainWindow._create_node_at
create_node_at(w) == on_update(add_node(w))

\* ControlPanel._on_add_link
on_add_link(w, a, b, latency, bandwidth, queue_size) ==
    IF add_link_rejects(w, a, b) THEN w
    ELSE on_update(add_link(w, a, b, latency, bandwidth, queue_size))

\* ControlPanel._on_delete_link
on_delete_link(w, a, b) ==
    IF get_link_by_nodes(w, a, b) # NoLink
    THEN on_update(remove_link(w, get_link_by_nodes(w, a, b)))
    ELSE w

\* ControlPanel._on_clear_all
on_clear_all(w) == on_update(network_clear_all(w))

\* the chain 1-2-3 plus node 4, drawn through the control panel
DrawnNetwork(callback, lat1, q1, lat2, q2) ==
    LET n4 == create_node_at(create_node_at(create_node_at(
                  create_node_at(Constructed(callback)))))
        l1 == on_add_link(n4, 1, 2, lat1, 10, q1)
    IN  on_add_link(l1, 2, 3, lat2, 10, q2)

StateIs(w) ==
    /\ sim_time = w.sim_time
    /\ wall = w.wall
    /\ paused = w.paused
    /\ speed_multiplier = w.speed_multiplier
    /\ update_callback = w.update_callback
    /\ anim_active = w.anim_active
    /\ animators = w.animators
    /\ after_queue = w.after_queue
    /\ nodes = w.nodes
    /\ links = w.links
    /\ node_counter = w.node_counter
    /\ link_counter = w.link_counter
    /\ current_path = w.current_path
    /\ path_history = w.path_history
    /\ link_queues = w.link_queues
    /\ congestion_windows = w.congestion_windows
    /\ drop_history = w.drop_history
    /\ congestion_events = w.congestion_events
    /\ ctl_total_packets_dropped = w.ctl_total_packets_dropped
    /\ link_metrics = w.link_metrics
    /\ packet_metrics = w.packet_metrics
    /\ total_packets_sent = w.total_packets_sent
    /\ total_packets_delivered = w.total_packets_delivered
    /\ total_packets_dropped = w.total_packets_dropped
    /\ heap = w.heap
    /\ all_packets = w.all_packets
    /\ active_packets = w.active_packets
    /\ delivered_packets = w.delivered_packets
    /\ dropped_packets = w.dropped_packets
    /\ packet_counter = w.packet_counter

Init ==
    /\ \E q1, q2 \in QueueSizes : StateIs(DrawnNetwork(None, 1, q1, 2, q2))
    /\ ret = [op |-> "init"]

\* every link queue can still take an enqueue attempt
AdmissionsLeft == \A l \in DOMAIN link_queues : link_queues[l].packets_enqueued < MaxAdmit

CreatePacket(source_id, dest_id, size) ==
    /\ \/ create_packet_invalid(Cur, source_id, dest_id)
       \/ (packet_counter < MaxPackets /\ Len(heap) < MaxPackets)
    /\ \E sp \in compute_shortest_path(Cur, source_id, dest_id) :
          LET r == create_packet(Cur, source_id, dest_id, size, sp)
          IN  /\ Commit(r.w)
              /\ ret' = [op |-> "create_packet", source_id |-> source_id,
                         dest_id |-> dest_id, result |-> r.result]

StartPacketAnimation(packet) ==
    /\ AdmissionsLeft
    /\ Len(dropped_packets) < MaxLog
    /\ LET r == start_packet_animation(Cur, packet, 1)
       IN  /\ Commit(r.w)
           /\ ret' = [op |-> "start_packet_animation", packet |-> packet,
                      result |-> r.result]

AdvancePacket(packet) ==
    /\ AdmissionsLeft
    /\ Len(dropped_packets) < MaxLog
    /\ Len(delivered_packets) < MaxLog
    /\ LET r == advance_packet(Cur, packet, 1)
       IN  /\ Commit(r.w)
           /\ ret' = [op |-> "advance_packet", packet |-> packet,
                      result |-> r.result]

\* one frame of AnimatorWorker.run
Tick ==
    /\ wall < MaxTime
    /\ Len(after_queue) < 2
    /\ Commit(run_frame(Cur, 1))
    /\ ret' = [op |-> "tick"]

Next ==
    \/ \E rq \in Requests, size \in Sizes : CreatePacket(rq[1], rq[2], size)
    \/ \E h \in 1..Len(heap) : StartPacketAnimation(h)
    \/ \E h \in 1..Len(heap) : AdvancePacket(h)
    \/ Tick

Spec == Init /\ [][Next]_vars


\* ------------------------------------------------------------ claims on Spec
Packets == 1..Len(heap)
Terminal == {DELIVERED, DROPPED}
Count(seq, x) == Cardinality({i \in 1..Len(seq) : seq[i] = x})

\* the links of packet h's path, and whether h holds a slot in a link's queue
\* (nothing dequeues in Spec, so a slot records an accepted admission)
LinksOfPath(h) == {get_link_by_nodes(Cur, heap[h].path[i], heap[h].path[i + 1]) :
                     i \in 1..(Len(heap[h].path) - 1)}
AdmittedOn(h, l) == \E i \in 1..Len(link_queues[l].queue) :
                       link_queues[l].queue[i].packet = h

\* C2: DELIVERED and DROPPED are terminal.  Once a packet is DELIVERED or
\* DROPPED no later operation changes its state or its delivery_time, or
\* counts it again as delivered or dropped.
C2_TerminalStep ==
    \A h \in Packets :
        heap[h].state \in Terminal =>
            /\ heap'[h].state = heap[h].state
            /\ heap'[h].delivery_time = heap[h].delivery_time
            /\ Count(delivered_packets', h) = Count(delivered_packets, h)
            /\ Count(dropped_packets', h) = Count(dropped_packets, h)

\* C2 over every step: a terminal packet is left as it is
C2_TerminalIsFinal == [][C2_TerminalStep]_vars

\* C6: when advance_packet's admission on the next link is rejected, the
\* packet becomes DROPPED, leaves active_packets and the animator, the
\* delivered count stays, the dropped count grows by exactly one, and the
\* packet takes no slot on any link in that call.
C6_RejectedAdvanceStep ==
    (/\ ret'.op = "advance_packet"
     /\ Len(drop_history') = Len(drop_history) + 1)
    => LET h == ret'.packet
           id == heap[h].id
       IN  /\ ret'.result = FALSE
           /\ heap'[h].state = DROPPED
           /\ id \notin DOMAIN active_packets'
           /\ id \notin DOMAIN animators'
           /\ id \notin DOMAIN anim_active'
           /\ delivered_packets' = delivered_packets
           /\ total_packets_delivered' = total_packets_delivered
           /\ dropped_packets' = Append(dropped_packets, h)
           /\ total_packets_dropped' = total_packets_dropped + 1
           /\ \A l \in DOMAIN link_queues :
                 link_queues'[l].queue = link_queues[l].queue

\* C6 over every step: a rejected advance drops the packet, once
C6_RejectedAdvanceDrops == [][C6_RejectedAdvanceStep]_vars

\* a packet routed 1-2-3 was admitted on link 1 by start_packet_animation,
\* and its advance_packet has just been rejected by link 2's full queue
C6_Witness ==
    /\ ret.op = "advance_packet"
    /\ ret.result = FALSE
    /\ heap[ret.packet].path = <<1, 2, 3>>
    /\ heap[ret.packet].state = DROPPED
    /\ heap[ret.packet].path_index = 1
    /\ AdmittedOn(ret.packet, 1)
    /\ drop_history # <<>>
    /\ drop_history[Len(drop_history)] =
          [packet_id |-> heap[ret.packet].id, link_id |-> 2, time_ms |-> sim_time]
    /\ dropped_packets = <<ret.packet>>

\* C7: a packet only ever goes QUEUED -> IN_TRANSIT, IN_TRANSIT -> IN_TRANSIT,
\* IN_TRANSIT -> DELIVERED, QUEUED -> DROPPED or IN_TRANSIT -> DROPPED, and it
\* becomes DELIVERED only with an accepted admission on every link of its path.
C7_Transitions ==
    {<<QUEUED, IN_TRANSIT>>, <<IN_TRANSIT, IN_TRANSIT>>, <<IN_TRANSIT, DELIVERED>>,
     <<QUEUED, DROPPED>>, <<IN_TRANSIT, DROPPED>>}

C7_TransitionStep ==
    \A h \in Packets :
        /\ heap'[h].state # heap[h].state =>
              <<heap[h].state, heap'[h].state>> \in C7_Transitions
        /\ (heap[h].state # DELIVERED /\ heap'[h].state = DELIVERED) =>
              \A l \in LinksOfPath(h) : AdmittedOn(h, l)

\* C7 over every step: only the lifecycle's transitions are taken
C7_OnlyLifecycleTransitions == [][C7_TransitionStep]_vars

\* C8: create_packet with an unknown source, an unknown destination or
\* source = destination returns no packet and changes nothing at all.
C8_InvalidCreateStep ==
    (/\ ret'.op = "create_packet"
     /\ create_packet_invalid(Cur, ret'.source_id, ret'.dest_id))
    => /\ ret'.result = NoPacket
       /\ UNCHANGED progVars

\* C8 over every step: an invalid create_packet mutates nothing
C8_InvalidCreateMutatesNothing == [][C8_InvalidCreateStep]_vars

\* create_packet was just refused for an unknown source, with one packet
\* already made and a path on record
C8_Witness ==
    /\ ret.op = "create_packet"
    /\ ret.source_id \notin nodes
    /\ ret.result = NoPacket
    /\ packet_counter = 1
    /\ Len(all_packets) = 1
    /\ current_path # Nothing

\* C9: create_packet between two known, distinct nodes with no route
\* between them returns no packet, adds none to all_packets or
\* active_packets, opens no PacketMetrics and leaves total_packets_sent.
C9_NoRouteCreateStep ==
    (/\ ret'.op = "create_packet"
     /\ ~create_packet_invalid(Cur, ret'.source_id, ret'.dest_id)
     /\ compute_shortest_path(Cur, ret'.source_id, ret'.dest_id) = {NoPathFound})
    => /\ ret'.result = NoPacket
       /\ heap' = heap
       /\ all_packets' = all_packets
       /\ active_packets' = active_packets
       /\ packet_metrics' = packet_metrics
       /\ total_packets_sent' = total_packets_sent

\* C9 over every step: a create_packet without route creates nothing
C9_NoRouteCreatesNothing == [][C9_NoRouteCreateStep]_vars

\* create_packet(1, 4) was just refused: both nodes exist, no link reaches 4
C9_Witness ==
    /\ ret.op = "create_packet"
    /\ ret.source_id = 1
    /\ ret.dest_id = 4
    /\ {1, 4} \subseteq nodes
    /\ ret.result = NoPacket
    /\ packet_counter = 2
    /\ Len(all_packets) = 1

\* C10: what create_packet, and set_path, hand back for a pair with no route
\* differs from what they hand back for an invalid request.
C10_NoRouteSignalledDistinctly ==
    \A a, b \in Requests :
        (/\ ~create_packet_invalid(Cur, a[1], a[2])
         /\ compute_shortest_path(Cur, a[1], a[2]) = {NoPathFound}
         /\ create_packet_invalid(Cur, b[1], b[2]))
        => /\ create_packet(Cur, a[1], a[2], 1024, NoPathFound).result
                # create_packet(Cur, b[1], b[2], 1024, Raised).result
           /\ set_path(Cur, a[1], a[2], NoPathFound).result
                # set_path(Cur, b[1], b[2], Raised).result

\* byte counts no packet can have
MalformedSizes == {0, -1}

\* C11: create_packet with a zero or negative size between valid, connected
\* nodes returns no packet and changes nothing.
C11_MalformedSizeRejected ==
    \A rq \in Requests, size \in MalformedSizes :
        \A sp \in compute_shortest_path(Cur, rq[1], rq[2]) :
            sp.kind = "path" =>
                LET r == create_packet(Cur, rq[1], rq[2], size, sp)
                IN  /\ r.result = NoPacket
                    /\ r.w = Cur

\* C12: no packet is counted as active (in the manager's active_packets or
\* in the animator's active_packets, which the frame callback is handed) and
\* as delivered or dropped at the same time.
C12_NeverActiveAndFinished ==
    \A h \in Packets :
        (Count(delivered_packets, h) > 0 \/ Count(dropped_packets, h) > 0) =>
            /\ \A id \in DOMAIN active_packets : active_packets[id] # h
            /\ \A id \in DOMAIN anim_active : anim_active[id] # h

\* a step that delivers packet h, sent by start_packet_animation before
Delivers(h) ==
    /\ ret'.op = "advance_packet"
    /\ ret'.packet = h
    /\ ret'.result = TRUE
    /\ heap[h].state = IN_TRANSIT
    /\ packet_metrics[heap[h].id].state = "in_transit"

\* C18: after record_packet_delivery the metrics record of a delivered packet
\* has actual_latency = delivery_time - sent_time, for every sent time >= 0
\* and every delivery time >= the sent time.
C18_DeliveryStep ==
    \A h \in Packets :
        Delivers(h) =>
            LET m == packet_metrics'[heap[h].id]
            IN  (m.sent_time >= 0 /\ m.delivery_time >= m.sent_time) =>
                    m.actual_latency = m.delivery_time - m.sent_time

\* C18 over every step
C18_ActualLatencyRecorded == [][C18_DeliveryStep]_vars

\* C19: link metrics change only on delivery.  A delivery adds exactly 1 to
\* packets_sent and to packets_received and exactly the packet size to
\* total_bytes_transferred of each link on the packet's path and leaves the
\* other links alone; creating, sending or dropping a packet leaves every
\* link's metrics unchanged.
C19_LinkMetricsStep ==
    /\ \A h \in Packets :
          Delivers(h) =>
              \A l \in DOMAIN link_metrics :
                  IF l \in LinksOfPath(h)
                  THEN /\ link_metrics'[l].packets_sent = link_metrics[l].packets_sent + 1
                       /\ link_metrics'[l].packets_received =
                             link_metrics[l].packets_received + 1
                       /\ link_metrics'[l].total_bytes_transferred =
                             link_metrics[l].total_bytes_transferred + heap[h].size
                  ELSE link_metrics'[l] = link_metrics[l]
    /\ (ret'.op \in {"create_packet", "start_packet_animation"}
          \/ (ret'.op = "advance_packet" /\ ret'.result = FALSE))
          => link_metrics' = link_metrics

\* C19 over every step
C19_LinkMetricsOnlyOnDelivery == [][C19_LinkMetricsStep]_vars

\* congestion window values to compare admissions under
Windows == {CwFromInt(c) : c \in 1..MaxCap} \cup {CwPlusTenth(CwFromInt(1))}

\* the program state with every congestion window set to cwnd
WithWindow(cwnd) ==
    [Cur EXCEPT !.congestion_windows = [l \in DOMAIN @ |-> cwnd]]

\* C20: admission does not depend on the congestion window.  In two
\* controller states that agree on the link queues and differ in the
\* congestion windows, process_packet_on_link returns the same
\* accepted/rejected result and leaves the same queues.
C20_AdmissionIgnoresWindow ==
    \A l \in DOMAIN link_queues, h \in Packets, cwnd \in Windows :
        LET a == process_packet_on_link(Cur, h, l, sim_time, 1)
            b == process_packet_on_link(WithWindow(cwnd), h, l, sim_time, 1)
        IN  /\ a.accepted = b.accepted
            /\ a.w.link_queues = b.w.link_queues

\* C20's case: a link that has refused a packet, a packet to offer and a
\* window value different from the link's own, for a full and for a
\* non-full queue
C20_Witness ==
    /\ \E l \in DOMAIN link_queues, cwnd \in Windows :
          /\ Packets # {}
          /\ cwnd # congestion_windows[l]
          /\ link_queues[l].packets_dropped > 0
          /\ is_full(link_queues[l])
    /\ \E l \in DOMAIN link_queues, cwnd \in Windows :
          /\ cwnd # congestion_windows[l]
          /\ get_size(link_queues[l]) > 0
          /\ ~is_full(link_queues[l])

\* ============================================================ SpecClear
\* One simulation run as in Spec, ended by QueueAwarePacketManager.clear_all;
\* what follows the clear is the next run and is not explored.
ClearAll ==
    /\ ret.op # "clear_all"
    /\ Commit(manager_clear_all(Cur))
    /\ ret' = [op |-> "clear_all"]

ClearNext ==
    \/ (ret.op # "clear_all" /\ Next)
    \/ ClearAll

SpecClear == Init /\ [][ClearNext]_vars

\* C14: after clear_all every counter is zero, every link queue is empty with
\* its four counters at zero, every congestion window is at its initial value
\* (the queue's capacity), and no packet is left in the manager's
\* active_packets or in the animator.
C14_ClearAllStep ==
    ret'.op = "clear_all" =>
        /\ packet_counter' = 0
        /\ total_packets_sent' = 0
        /\ total_packets_delivered' = 0
        /\ total_packets_dropped' = 0
        /\ ctl_total_packets_dropped' = 0
        /\ \A l \in DOMAIN link_queues' :
              /\ link_queues'[l].queue = <<>>
              /\ link_queues'[l].packets_enqueued = 0
              /\ link_queues'[l].packets_dequeued = 0
              /\ link_queues'[l].packets_dropped = 0
              /\ link_queues'[l].total_queue_delay = 0
              /\ congestion_windows'[l] = CwFromInt(link_queues'[l].capacity)
        /\ active_packets' = EmptyDict
        /\ anim_active' = EmptyDict
        /\ animators' = EmptyDict

\* C14 over every step: clear_all resets everything
C14_ClearAllResets == [][C14_ClearAllStep]_vars

\* C26: the drop history is an append-only log of rejected admissions.  A
\* rejected process_packet_on_link appends exactly one (packet id, link id,
\* time) entry, an accepted one appends nothing, no operation other than
\* clear-all changes or reorders existing entries, and the length of the
\* history equals the controller's total_packets_dropped.
C26_HistoryStep ==
    ret'.op # "clear_all" =>
        IF \E l \in DOMAIN link_queues :
              link_queues'[l].packets_dropped = link_queues[l].packets_dropped + 1
        THEN \E l \in DOMAIN link_queues :
                /\ link_queues'[l].packets_dropped = link_queues[l].packets_dropped + 1
                /\ drop_history' = Append(drop_history,
                        [packet_id |-> heap[ret'.packet].id, link_id |-> l,
                         time_ms |-> sim_time])
        ELSE drop_history' = drop_history

C26_HistoryCounts == Len(drop_history) = ctl_total_packets_dropped

TopoInit ==
    /\ StateIs(DrawnNetwork(None, 1, MaxCap, 2, MaxCap))
    /\ ret = [op |-> "init"]

RemoveLink(a, b) ==
    /\ Commit(on_delete_link(Cur, a, b))
    /\ ret' = [op |-> "remove_link", node_a |-> a, node_b |-> b]

TopoNext ==
    \/ \E size \in Sizes : CreatePacket(1, 3, size)
    \/ \E h \in 1..Len(heap) : StartPacketAnimation(h)
    \/ \E h \in 1..Len(heap) : AdvancePacket(h)
    \/ Tick
    \/ \E l \in DOMAIN links : RemoveLink(links[l].node_a, links[l].node_b)

SpecTopo == TopoInit /\ [][TopoNext]_vars

\* the packet is dropped by this step: marked, logged once more, untracked
DroppedBy(h) ==
    /\ heap'[h].state = DROPPED
    /\ dropped_packets' = Append(dropped_packets, h)
    /\ total_packets_dropped' = total_packets_dropped + 1
    /\ heap[h].id \notin DOMAIN active_packets'
    /\ heap[h].id \notin DOMAIN animators'

\* C15: when a packet needs a link that has been removed, at
\* start_packet_animation or at advance_packet of a packet in transit, the
\* call drops it; it is not left IN_TRANSIT without an animator.
C15_MissingLinkStep ==
    /\ (/\ ret'.op = "start_packet_animation"
        /\ heap[ret'.packet].state = QUEUED
        /\ get_link_by_nodes(Cur, heap[ret'.packet].path[1],
                             heap[ret'.packet].path[2]) = NoLink)
       => DroppedBy(ret'.packet)
    /\ (/\ ret'.op = "advance_packet"
        /\ heap[ret'.packet].state = IN_TRANSIT
        /\ heap[ret'.packet].path_index + 2 < Len(heap[ret'.packet].path)
        /\ get_link_by_nodes(Cur,
              heap[ret'.packet].path[heap[ret'.packet].path_index + 2],
              heap[ret'.packet].path[heap[ret'.packet].path_index + 3]) = NoLink)
       => DroppedBy(ret'.packet)

\* C15 over every step: a removed link drops the packet that needs it
C15_RemovedLinkDropsPacket == [][C15_MissingLinkStep]_vars

\* an admission of packet h on link l was requested before: it holds a slot
\* of the queue, or the drop history names it (nothing dequeues here)
RequestedBefore(h, l) ==
    \/ AdmittedOn(h, l)
    \/ \E i \in 1..Len(drop_history) :
          /\ drop_history[i].packet_id = heap[h].id
          /\ drop_history[i].link_id = l

\* this step requests an admission on link l
AsksAdmission(l) == link_queues'[l].packets_enqueued = link_queues[l].packets_enqueued + 1

\* C31: a packet's path is fixed at creation, whatever happens to the
\* topology; each advance increases the path index by exactly 1; and the
\* admissions of a packet are requested hop by hop, on the link of the hop it
\* enters, each at most once, no hop skipped.
C31_HopStep ==
    /\ \A h \in Packets : heap'[h].path = heap[h].path
    /\ \A h \in Packets :
          (ret'.op = "advance_packet" /\ ret'.packet = h) =>
              /\ heap'[h].path_index = heap[h].path_index + 1
              /\ \* the hop it leaves had its admission requested
                 LET l == get_link_by_nodes(Cur, heap[h].path[heap[h].path_index + 1],
                                            heap[h].path[heap[h].path_index + 2])
                 IN  l # NoLink => RequestedBefore(h, l)
    /\ \A h \in Packets, l \in DOMAIN link_queues :
          (ret'.op \in {"start_packet_animation", "advance_packet"}
             /\ ret'.packet = h /\ AsksAdmission(l)) =>
              /\ ~RequestedBefore(h, l)
              /\ heap'[h].path_index + 2 <= Len(heap[h].path)
              /\ l = get_link_by_nodes(Cur, heap[h].path[heap'[h].path_index + 1],
                                       heap[h].path[heap'[h].path_index + 2])

\* C31 over every step
C31_HopByHop == [][C31_HopStep]_vars

\* ============================================================ SpecEvict
\* The manager's operations as in Spec, on the chain 1-2-3 whose one-slot
\* link queues were created with the head-drop or the random-drop policy
\* (with one slot the random index can only name the one queued item).
EvictPolicies == {HEAD_DROP, RANDOM_DROP}

EvictInit ==
    /\ \E pol \in EvictPolicies :
          StateIs(create_link_queue(create_link_queue(
                      DrawnNetwork(None, 1, 1, 2, 1), 1, 1, pol), 2, 1, pol))
    /\ ret = [op |-> "init"]

SpecEvict == EvictInit /\ [][Next]_vars

\* C28: a packet evicted from a link queue by a head-drop or random-drop
\* enqueue is surfaced as dropped: it ends in state DROPPED and appears in
\* the drop history, in dropped_packets and in the metrics as dropped.
C28_EvictionStep ==
    \A l \in DOMAIN link_queues, h \in Packets :
        (/\ ret'.op \in {"start_packet_animation", "advance_packet"}
         /\ AdmittedOn(h, l)
         /\ \A i \in 1..Len(link_queues'[l].queue) :
               link_queues'[l].queue[i].packet # h)
        => /\ heap'[h].state = DROPPED
           /\ Count(dropped_packets', h) > 0
           /\ \E i \in 1..Len(drop_history') :
                 drop_history'[i].packet_id = heap[h].id
           /\ packet_metrics'[heap[h].id].state = "dropped"

\* C28 over every step
C28_EvictedPacketDropped == [][C28_EvictionStep]_vars

\* ============================================================ SpecStart
\* start_packet_animation on the chain 1-2-3, for the packets create_packet
\* builds and for one Packet object the caller built itself with a path of
\* fewer than two nodes.
ShortPaths == {<<>>, <<1>>}

StartInit ==
    /\ \E q1, q2 \in QueueSizes, path \in ShortPaths :
          StateIs([DrawnNetwork(None, 1, q1, 2, q2) EXCEPT
                      !.heap = <<NewPacket(MaxPackets + 1, 1, 1, 0, 1024, path)>>])
    /\ ret = [op |-> "init"]

StartCreatePacket(source_id, dest_id, size) ==
    /\ packet_counter < MaxPackets
    /\ \E sp \in compute_shortest_path(Cur, source_id, dest_id) :
          LET r == create_packet(Cur, source_id, dest_id, size, sp)
          IN  /\ Commit(r.w)
              /\ ret' = [op |-> "create_packet", source_id |-> source_id,
                         dest_id |-> dest_id, result |-> r.result]

StartNext ==
    \/ \E size \in Sizes : StartCreatePacket(1, 3, size)
    \/ \E h \in 1..Len(heap) : StartPacketAnimation(h)
    \/ Tick

SpecStart == StartInit /\ [][StartNext]_vars

\* C30: start_packet_animation drops a packet whose path has fewer than 2
\* nodes without an admission attempt (no queue counter changes); when the
\* first hop's admission is rejected a QUEUED packet goes directly to
\* DROPPED, no sent timestamp is recorded, no animator is scheduled and the
\* call returns false.
C30_StartStep ==
    \A h \in Packets :
        (ret'.op = "start_packet_animation" /\ ret'.packet = h) =>
            /\ Len(heap[h].path) < 2 =>
                  /\ ret'.result = FALSE
                  /\ heap'[h].state = DROPPED
                  /\ Count(dropped_packets', h) = Count(dropped_packets, h) + 1
                  /\ link_queues' = link_queues
                  /\ drop_history' = drop_history
            /\ (/\ heap[h].state = QUEUED
                /\ \E l \in DOMAIN link_queues :
                      link_queues'[l].packets_dropped
                          = link_queues[l].packets_dropped + 1) =>
                  /\ ret'.result = FALSE
                  /\ heap'[h].state = DROPPED
                  /\ heap'[h].sent_time = heap[h].sent_time
                  /\ packet_metrics'[heap[h].id].sent_time
                        = packet_metrics[heap[h].id].sent_time
                  /\ packet_metrics'[heap[h].id].state = "dropped"
                  /\ heap[h].id \notin DOMAIN animators'
                  /\ heap[h].id \notin DOMAIN anim_active'
                  /\ heap[h].id \notin DOMAIN active_packets'

\* C30 over every step
C30_StartRejectionsDrop == [][C30_StartStep]_vars

\* C30's case: the packet with the short path was dropped at its start, and
\* a created packet, started after the clock had advanced, was refused by
\* the first link's queue
C30_Witness ==
    /\ heap[1].state = DROPPED
    /\ Count(dropped_packets, 1) = 1
    /\ ret.op = "start_packet_animation"
    /\ ret.result = FALSE
    /\ ret.packet # 1
    /\ heap[ret.packet].state = DROPPED
    /\ Len(drop_history) = 1
    /\ drop_history[1].time_ms > heap[ret.packet].creation_time

\* ============================================================ SpecApp
\* The application as main.py wires it: the control panel's handlers on the Tk
\* main loop, the AnimatorWorker thread calling MainWindow._on_animation_update
\* once per frame, and the calls that callback posts with after(0, ...), which
\* the main loop runs in order.
OnAnimationUpdate == "_on_animation_update"

\* MainWindow.__init__
AppInit ==
    /\ StateIs(Constructed(OnAnimationUpdate))
    /\ ret = [op |-> "init"]

\* ControlPanel._on_send_packet
on_send_packet(w, source_id, dest_id, size, sp) ==
    LET r == create_packet(w, source_id, dest_id, size, sp)
    IN  IF r.result # NoPacket
        THEN [w |-> start_packet_animation(r.w, r.result, 1).w, result |-> r.result]
        ELSE r

\* a click on the canvas in add-node mode
AppCreateNode ==
    /\ node_counter < MaxNodes
    /\ Commit(create_node_at(Cur))
    /\ ret' = [op |-> "_create_node_at"]

AppAddLink(a, b, queue_size) ==
    /\ link_counter < MaxLinks
    /\ Commit(on_add_link(Cur, a, b, 1, 10, queue_size))
    /\ ret' = [op |-> "_on_add_link"]

AppDeleteLink(a, b) ==
    /\ Commit(on_delete_link(Cur, a, b))
    /\ ret' = [op |-> "_on_delete_link"]

AppClearAll ==
    /\ Commit(on_clear_all(Cur))
    /\ ret' = [op |-> "_on_clear_all"]

AppSendPacket(source_id, dest_id, size) ==
    /\ \/ create_packet_invalid(Cur, source_id, dest_id)
       \/ (packet_counter < MaxPackets /\ Len(heap) < MaxPackets)
    /\ AdmissionsLeft
    /\ \E sp \in compute_shortest_path(Cur, source_id, dest_id) :
          LET r == on_send_packet(Cur, source_id, dest_id, size, sp)
          IN  /\ Commit(r.w)
              /\ ret' = [op |-> "_on_send_packet", source_id |-> source_id,
                         dest_id |-> dest_id, result |-> r.result]

\* a plausible slip: the animator thread advances the packets whose hop
\* finished itself instead of leaving that to the main loop
AppTick_advancing ==
    /\ wall < MaxTime
    /\ Len(after_queue) < MaxPending
    /\ LET w == run_frame(Cur, 1)
           finished == SetToSeq((DOMAIN animators) \ (DOMAIN w.animators))
       IN  Commit(advance_packets(w, finished, 1))
    /\ ret' = [op |-> "tick"]

\* one frame of AnimatorWorker.run, the callback included
AppTick ==
    /\ wall < MaxTime
    /\ Len(after_queue) < MaxPending
    /\ Commit(run_frame(Cur, 1))
    /\ ret' = [op |-> "tick"]

\* the Tk main loop runs the oldest posted call
AppRunAfter ==
    /\ after_queue # <<>>
    /\ LET c == Head(after_queue)
           w == [Cur EXCEPT !.after_queue = Tail(@)]
       IN  Commit(IF c.call = "_advance_packets"
                  THEN advance_packets(w, c.ids, 1)
                  ELSE w)
    /\ ret' = [op |-> "after"]

AppNext ==
    \/ AppCreateNode
    \/ \E a, b \in 1..MaxNodes, q \in QueueSizes : AppAddLink(a, b, q)
    \/ \E a, b \in 1..MaxNodes : AppDeleteLink(a, b)
    \/ AppClearAll
    \/ \E s, d \in 1..MaxNodes, size \in Sizes : AppSendPacket(s, d, size)
    \/ AppTick
    \/ AppRunAfter

SpecApp == AppInit /\ [][AppNext]_vars

\* ============================================================ SpecClock
\* The application with its Start and Pause buttons, on a network drawn
\* beforehand: nodes 1 and 2 and the link between them.
\* link latencies the user enters, in frames
Latencies == {1, 2}

ClockInit ==
    /\ \E lat \in Latencies, q \in QueueSizes :
          StateIs(on_add_link(create_node_at(create_node_at(
                      Constructed(OnAnimationUpdate))), 1, 2, lat, 10, q))
    /\ ret = [op |-> "init"]

\* ControlPanel._on_pause_simulation
AppPause ==
    /\ ~paused
    /\ Commit(pause(Cur))
    /\ ret' = [op |-> "_on_pause_simulation"]

\* ControlPanel._on_start_simulation
AppResume ==
    /\ paused
    /\ Commit(resume(Cur))
    /\ ret' = [op |-> "_on_start_simulation"]

ClockNext ==
    \/ \E s, d \in 1..MaxNodes, size \in Sizes : AppSendPacket(s, d, size)
    \/ AppTick
    \/ AppRunAfter
    \/ AppPause
    \/ AppResume

SpecClock == ClockInit /\ [][ClockNext]_vars

\* the simulated time the hop of animator a still needs at time t
Remaining(a, t) == a.link_latency * a.speed_multiplier - (t - a.start_time)

\* C13: while paused a frame moves neither the simulated time nor any hop;
\* while running, a frame takes from each hop in flight exactly the frame's
\* own duration, so a hop that completes needed no more than that: time
\* spent paused does not count.
C13_PauseStep ==
    ret'.op = "tick" =>
        IF paused
        THEN /\ sim_time' = sim_time
             /\ animators' = animators
        ELSE \A id \in DOMAIN animators :
                LET due == (wall' - wall) * animators[id].speed_multiplier
                IN  IF id \in DOMAIN animators'
                    THEN Remaining(animators'[id], sim_time') =
                            Remaining(animators[id], sim_time) - due
                    ELSE Remaining(animators[id], sim_time) <= due

\* C13 over every step: pause and resume preserve the hops in flight
C13_PausePreservesHops == [][C13_PauseStep]_vars

\* ------------------------------------------------------------ claims on SpecApp
\* C3: while the clock runs, a hop completion detected by a frame is never
\* lost before advance_packet is invoked for the packet.  A packet in transit
\* is therefore, at every moment, either still crossing its link (it has an
\* animator) or named in a posted _advance_packets call that has yet to run.
C3_CompletionNeverLost ==
    \A id \in DOMAIN active_packets :
        heap[active_packets[id]].state = IN_TRANSIT =>
            \/ id \in DOMAIN animators
            \/ \E i \in 1..Len(after_queue) :
                  /\ after_queue[i].call = "_advance_packets"
                  /\ id \in Range(after_queue[i].ids)

\* C5: a link's congestion window stays within [1.0, queue capacity]; it
\* starts at the queue capacity, a rejected admission never increases it and
\* an accepted admission never decreases it.
C5_WindowInRange ==
    \A l \in DOMAIN congestion_windows :
        /\ CwLeq(CwFromInt(1), congestion_windows[l])
        /\ CwLeq(congestion_windows[l], CwFromInt(link_queues[l].capacity))

C5_WindowStep ==
    /\ \A l \in (DOMAIN congestion_windows') \ (DOMAIN congestion_windows) :
          congestion_windows'[l] = CwFromInt(link_queues'[l].capacity)
    /\ \A l \in DOMAIN congestion_windows :
          LET asked == link_queues'[l].packets_enqueued = link_queues[l].packets_enqueued + 1
              rejected == link_queues'[l].packets_dropped = link_queues[l].packets_dropped + 1
          IN  /\ (asked /\ rejected) =>
                    CwLeq(congestion_windows'[l], congestion_windows[l])
              /\ (asked /\ ~rejected) =>
                    CwLeq(congestion_windows[l], congestion_windows'[l])

\* C5 over every state and step: the window is in range and moves the right way
C5_WindowBounds == [](C5_WindowInRange) /\ [][C5_WindowStep]_vars


\* C21: after any sequence of topology mutations followed by the
\* topology-change notification, every link of the topology has a LinkQueue
\* of the link's queue capacity and a congestion window within
\* [1.0, that capacity]; a newly added link starts with a fresh queue, fresh
\* counters and a fresh window, never those of an earlier link.
C21_QueuesMatchLinks ==
    \A l \in DOMAIN links :
        /\ l \in DOMAIN link_queues
        /\ l \in DOMAIN congestion_windows
        /\ link_queues[l].capacity = links[l].queue_size
        /\ CwLeq(CwFromInt(1), congestion_windows[l])
        /\ CwLeq(congestion_windows[l], CwFromInt(links[l].queue_size))

C21_NewLinkStep ==
    ret'.op = "_on_add_link" =>
        \A l \in (DOMAIN links') \ (DOMAIN links) :
            /\ link_queues'[l] = NewLinkQueue(l, links'[l].queue_size, TAIL_DROP)
            /\ congestion_windows'[l] = CwFromInt(links'[l].queue_size)

\* C21 over every state and step
C21_QueuesRematerialized == [](C21_QueuesMatchLinks) /\ [][C21_NewLinkStep]_vars


\* ============================================================ SpecRoute
\* Routing on networks of RouteNodes nodes: nodes 1, 2 and 3 are joined
\* pairwise by links drawn through the control panel, links are then deleted,
\* and a path is computed by PathManager.set_path or by create_packet.  A run
\* is explored up to its RoutePaths-th resolved path.
RouteLatencies == {1, 3}
Bandwidths == {10, 20}
\* node ids asked for, one of them never drawn
RouteIds == 1..(RouteNodes + 1)

RECURSIVE DrawNodes(_, _)
DrawNodes(w, n) == IF n = 0 THEN w ELSE create_node_at(DrawNodes(w, n - 1))

RouteInit ==
    /\ \E l12, l23, l13 \in RouteLatencies, b12, b23, b13 \in Bandwidths :
          StateIs(on_add_link(on_add_link(on_add_link(
                      DrawNodes(Constructed(None), RouteNodes),
                      1, 2, l12, b12, 1), 2, 3, l23, b23, 1), 1, 3, l13, b13, 1))
    /\ ret = [op |-> "init"]

RouteDeleteLink(a, b) ==
    /\ Len(path_history) < RoutePaths
    /\ get_link_by_nodes(Cur, a, b) # NoLink
    /\ Commit(on_delete_link(Cur, a, b))
    /\ ret' = [op |-> "_on_delete_link"]

RouteSetPath(source_id, dest_id) ==
    /\ Len(path_history) < RoutePaths
    /\ \E sp \in compute_shortest_path(Cur, source_id, dest_id) :
          LET r == set_path(Cur, source_id, dest_id, sp)
          IN  /\ Commit(r.w)
              /\ ret' = [op |-> "set_path", source_id |-> source_id,
                         dest_id |-> dest_id, sp |-> sp, result |-> r.result]

\* create_packet on these networks, which computes its path with set_path
RouteCreatePacket(source_id, dest_id) ==
    /\ Len(path_history) < RoutePaths
    /\ \E size \in Sizes : CreatePacket(source_id, dest_id, size)

RouteNext ==
    \/ \E l \in DOMAIN links : RouteDeleteLink(links[l].node_a, links[l].node_b)
    \/ \E s, d \in RouteIds : RouteSetPath(s, d)
    \/ \E s, d \in RouteIds : RouteCreatePacket(s, d)

SpecRoute == RouteInit /\ [][RouteNext]_vars

\* ------------------------------------------------------------ claims on SpecRoute
RECURSIVE Walks(_, _, _)
\* the node sequences that continue p along links, repetitions allowed, for
\* at most n more hops, and end at d
Walks(p, d, n) ==
    (IF p[Len(p)] = d THEN {p} ELSE {})
    \cup (IF n = 0 THEN {}
          ELSE UNION { Walks(Append(p, m), d, n - 1) :
                       m \in {x \in nodes : HasEdge(Cur, p[Len(p)], x)} })

\* the links along a node sequence and the sum of their latencies
LinkAt(p, i) == links[get_link_by_nodes(Cur, p[i], p[i + 1])]
LatencySum(p) == SumSeq([i \in 1..(Len(p) - 1) |-> LinkAt(p, i).latency])

\* C22: for distinct, connected nodes the path compute_shortest_path returns
\* starts at the source, ends at the destination, joins consecutive nodes by
\* existing links, repeats no node, and has the least total latency of all
\* source-to-destination paths.
C22_PathStep ==
    (/\ ret'.op = "set_path"
     /\ ret'.source_id # ret'.dest_id
     /\ ret'.source_id \in nodes
     /\ Walks(<<ret'.source_id>>, ret'.dest_id, RouteNodes) # {})
    => LET path == ret'.sp.path
       IN  /\ ret'.sp.kind = "path"
           /\ Len(path) >= 2
           /\ path[1] = ret'.source_id
           /\ path[Len(path)] = ret'.dest_id
           /\ \A i \in 1..(Len(path) - 1) : HasEdge(Cur, path[i], path[i + 1])
           /\ \A i, j \in 1..Len(path) : path[i] = path[j] => i = j
           /\ \A q \in Walks(<<ret'.source_id>>, ret'.dest_id, RouteNodes) :
                 LatencySum(path) <= LatencySum(q)

\* C22 over every step
C22_ShortestPathValidMinimal == [][C22_PathStep]_vars

\* C22's case: a path was computed between nodes that a direct link joins,
\* and the path goes the cheaper way round over the third node
C22_Witness ==
    /\ ret.op = "set_path"
    /\ ret.sp.kind = "path"
    /\ Len(ret.sp.path) = 3
    /\ HasEdge(Cur, ret.source_id, ret.dest_id)


\* the least bandwidth over the links along a node sequence
BandwidthMin(p) == SetMin({LinkAt(p, i).bandwidth : i \in 1..(Len(p) - 1)})

\* C23: for a resolved path the reported total_latency is the sum of the
\* latencies of its consecutive links, the bottleneck bandwidth is the least
\* bandwidth over those links and the throughput estimate equals the
\* bottleneck bandwidth; the theoretical metrics derived at packet creation
\* agree with these values.
C23_PathInfoStep ==
    /\ (ret'.op = "set_path" /\ ret'.result = TRUE) =>
          LET info == current_path'[1]
          IN  /\ info.path_nodes = ret'.sp.path
              /\ info.total_latency = LatencySum(info.path_nodes)
              /\ info.bottleneck_bandwidth = BandwidthMin(info.path_nodes)
              /\ info.throughput = info.bottleneck_bandwidth
    /\ (ret'.op = "create_packet" /\ ret'.result # NoPacket) =>
          LET info == current_path'[1]
              m == packet_metrics'[heap'[ret'.result].id]
          IN  /\ m.path_nodes = info.path_nodes
              /\ info.total_latency = LatencySum(info.path_nodes)
              /\ info.bottleneck_bandwidth = BandwidthMin(info.path_nodes)
              /\ info.throughput = info.bottleneck_bandwidth
              /\ m.total_latency = info.total_latency
              /\ m.bottleneck_bandwidth = info.bottleneck_bandwidth
              /\ m.hop_count = info.hop_count

\* C23 over every step
C23_PathCostsAdditive == [][C23_PathInfoStep]_vars

\* C23's case: a packet was created on a two-link path whose links differ in
\* latency and in bandwidth
C23_Witness ==
    /\ ret.op = "create_packet"
    /\ ret.result # NoPacket
    /\ Len(heap[ret.result].path) = 3
    /\ LinkAt(heap[ret.result].path, 1).bandwidth
          # LinkAt(heap[ret.result].path, 2).bandwidth
    /\ LinkAt(heap[ret.result].path, 1).latency
          # LinkAt(heap[ret.result].path, 2).latency

\* C24: compute_shortest_path raises when source equals destination or when
\* an endpoint is not in the graph, and returns None without raising when
\* both endpoints exist and are not connected.
C24_ErrorStep ==
    ret'.op = "set_path" =>
        LET s == ret'.source_id
            d == ret'.dest_id
        IN  /\ (s = d \/ s \notin nodes \/ d \notin nodes) => ret'.sp = Raised
            /\ (s # d /\ s \in nodes /\ d \in nodes
                  /\ Walks(<<s>>, d, RouteNodes) = {}) => ret'.sp = NoPathFound

\* C24 over every step
C24_RouterErrorsSignalled == [][C24_ErrorStep]_vars

\* C24's case: a path was asked from a node with links to itself
C24_Witness ==
    /\ ret.op = "set_path"
    /\ ret.source_id = ret.dest_id
    /\ \E n \in nodes : HasEdge(Cur, ret.source_id, n)


\* ------------------------------------------------------------ more claims on SpecApp
\* equal window values
CwSame(a, b) == CwLeq(a, b) /\ CwLeq(b, a)

\* C25: each admission moves the link's window by exactly one AIMD step.  On
\* acceptance window' = min(capacity, window + 0.1) and no congestion event
\* is recorded; on rejection window' = max(1.0, window / 2) and exactly one
\* congestion event is appended that carries the link, the new window and
\* the time of the admission.
C25_AimdStep ==
    \A l \in DOMAIN link_queues :
        LET asked == link_queues'[l].packets_enqueued = link_queues[l].packets_enqueued + 1
            rejected == link_queues'[l].packets_dropped = link_queues[l].packets_dropped + 1
            window == congestion_windows[l]
        IN  /\ (asked /\ ~rejected) =>
                  /\ CwSame(congestion_windows'[l],
                            CwMin(CwFromInt(link_queues[l].capacity),
                                  CwPlusTenth(window)))
                  /\ congestion_events' = congestion_events
            /\ (asked /\ rejected) =>
                  /\ CwSame(congestion_windows'[l],
                            CwMax(CwFromInt(1), CwHalf(window)))
                  /\ Len(congestion_events') = Len(congestion_events) + 1
                  /\ SubSeq(congestion_events', 1, Len(congestion_events))
                        = congestion_events
                  /\ LET e == congestion_events'[Len(congestion_events')]
                     IN  /\ e.link_id = l
                         /\ CwSame(e.cwnd, congestion_windows'[l])
                         /\ e.time_ms = sim_time

C32_SerializedStep ==
    /\ ret'.op = "tick" =>
          /\ link_queues' = link_queues
          /\ congestion_windows' = congestion_windows
          /\ heap' = heap
          /\ active_packets' = active_packets
          /\ delivered_packets' = delivered_packets
          /\ dropped_packets' = dropped_packets
    /\ (\E l \in (DOMAIN link_queues) \cap (DOMAIN link_queues') :
            link_queues'[l].packets_enqueued # link_queues[l].packets_enqueued) =>
          ret'.op \in {"_on_send_packet", "after"}

\* C32 over every step
C32_MutationsSerialized == [][C32_SerializedStep]_vars

\* C32's case: a frame of the animator thread has just found the hop of a
\* packet in transit finished, while the link's queue holds the packet
C32_Witness ==
    /\ ret.op = "tick"
    /\ \E h \in 1..Len(heap) :
          /\ heap[h].state = IN_TRANSIT
          /\ heap[h].id \in DOMAIN anim_active
          /\ heap[h].id \notin DOMAIN animators
          /\ \E l \in DOMAIN link_queues : link_queues[l].queue # <<>>


\* ============================================================ SpecSpeed
\* The application on the network of SpecClock, with the animation speed
\* changed through AnimatorWorker.set_speed.
AppSetSpeed(m) ==
    /\ Commit(set_speed(Cur, m))
    /\ ret' = [op |-> "set_speed", multiplier |-> m]

SpeedNext ==
    \/ \E s, d \in 1..MaxNodes, size \in Sizes : AppSendPacket(s, d, size)
    \/ AppTick
    \/ AppRunAfter
    \/ \E m \in Speeds : AppSetSpeed(m)

SpecSpeed == ClockInit /\ [][SpeedNext]_vars

\* C33: whatever the speed multiplier, a hop that started at simulated time t
\* on a link of latency L is found complete by a frame exactly when the
\* frame's simulated time has reached t + L: a frame removes a hop in flight
\* if and only if its simulated time is at least t + L.
C33_HopStep ==
    ret'.op = "tick" =>
        \A id \in DOMAIN animators :
            (id \notin DOMAIN animators') <=>
                (sim_time' >= animators[id].start_time + animators[id].link_latency)

\* C33 over every step
C33_HopTakesLatency == [][C33_HopStep]_vars


\* ------------------------------------------------------------ more claims on Spec
\* C34: when start_packet_animation accepts a queued packet at simulated
\* time t, t is the sent time of the Packet and of its metrics record; and
\* when the packet is delivered, the Packet's own total latency equals the
\* metrics record's actual_latency.
C34_SentStep ==
    \A h \in Packets :
        /\ (ret'.op = "start_packet_animation" /\ ret'.packet = h
               /\ ret'.result = TRUE /\ heap[h].state = QUEUED) =>
              /\ heap'[h].sent_time = sim_time
              /\ packet_metrics'[heap[h].id].sent_time = sim_time
        /\ Delivers(h) =>
              get_total_latency(heap'[h]) = packet_metrics'[heap[h].id].actual_latency

\* C34 over every step
C34_SentTimeRecorded == [][C34_SentStep]_vars


\* packet h is in transit on link l
OnLink(h, l) ==
    /\ heap[h].state = IN_TRANSIT
    /\ heap[h].path_index + 2 <= Len(heap[h].path)
    /\ get_link_by_nodes(Cur, heap[h].path[heap[h].path_index + 1],
                          heap[h].path[heap[h].path_index + 2]) = l

\* C35: a packet leaves a link's queue when it leaves the link: the queue of
\* every link holds at most as many packets as are in transit on that link,
\* so with no packet in flight every queue is empty.
C35_QueueHoldsPacketsOnLink ==
    \A l \in DOMAIN link_queues :
        Len(link_queues[l].queue) <= Cardinality({h \in Packets : OnLink(h, l)})


\* ------------------------------------------------------------ more claims on SpecQueue
\* C36: queue counter conservation.  For every drop policy, after every
\* enqueue and dequeue call on a LinkQueue, packets_enqueued equals the
\* queue's length plus packets_dequeued plus packets_dropped.
C36_CountersConserved ==
    \A l \in DOMAIN link_queues :
        link_queues[l].packets_enqueued =
            Len(link_queues[l].queue) + link_queues[l].packets_dequeued
                + link_queues[l].packets_dropped

\* C36's case: an evicting queue that has admitted, evicted and handed out
\* packets and still holds one
C36_Witness ==
    \E l \in DOMAIN link_queues :
        /\ link_queues[l].drop_policy \in {HEAD_DROP, RANDOM_DROP}
        /\ link_queues[l].packets_dropped > 0
        /\ link_queues[l].packets_dequeued > 0
        /\ link_queues[l].queue # <<>>


\* ------------------------------------------------------------ further claims on Spec
\* the number of the manager's collections' entries that are packet h
Holdings(h) ==
    Cardinality({id \in DOMAIN active_packets : active_packets[id] = h})
        + Count(delivered_packets, h) + Count(dropped_packets, h)

\* C37: packet accounting partition.  After every manager operation each
\* packet of all_packets is in exactly one of active_packets,
\* delivered_packets and dropped_packets, once, and the metrics counters
\* agree with the collections: sent with all_packets, delivered with
\* delivered_packets, dropped with dropped_packets.
C37_AccountingPartition ==
    /\ \A i \in 1..Len(all_packets) : Holdings(all_packets[i]) = 1
    /\ total_packets_sent = Len(all_packets)
    /\ total_packets_delivered = Len(delivered_packets)
    /\ total_packets_dropped = Len(dropped_packets)


\* ------------------------------------------------------------ further claims on SpecQueue
\* C38: the simulation clock is monotonic: no step, whether a frame or a
\* set_speed call, makes sim_time smaller.
C38_ClockStep == sim_time' >= sim_time

\* C38 over every step
C38_ClockMonotonic == [][C38_ClockStep]_vars


\* ============================================================ SpecReuse
\* The manager driven through create_packet, start_packet_animation and
\* clear_all, going on after a clear_all.
ReuseNext ==
    \/ \E rq \in Requests, size \in Sizes : CreatePacket(rq[1], rq[2], size)
    \/ \E h \in 1..Len(heap) : StartPacketAnimation(h)
    \/ ClearAll

SpecReuse == Init /\ [][ReuseNext]_vars

\* the Packet objects some component holds: the manager's collections and
\* the animator's active_packets and animators
Tracked ==
    Range(all_packets) \cup {active_packets[id] : id \in DOMAIN active_packets}
        \cup Range(delivered_packets) \cup Range(dropped_packets)
        \cup {anim_active[id] : id \in DOMAIN anim_active}
        \cup {animators[id].packet : id \in DOMAIN animators}

\* C39: packet identities are unique among the packets the components hold:
\* no two distinct Packet objects tracked at the same time by the manager or
\* the animator have the same id.
C39_TrackedIdsUnique ==
    \A h1, h2 \in Tracked : heap[h1].id = heap[h2].id => h1 = h2

====
